---- MODULE Spec2Model ----
(***************************************************************************)
(* Simulated-annealing TSP solvers of Src/Q1b.py (2-opt engine,            *)
(* SimulatedAnnealingTSP.run_optimization) and Src/Q1_Optimization.py      *)
(* (swap engine, simulated_annealing).                                     *)
(*                                                                         *)
(* Numbers.  Tour costs are Python floats that the code adds up edge by    *)
(* edge, so every addition rounds.  They are modelled by a binary floating *)
(* point format with round-to-nearest-even, Prec significand bits and a    *)
(* smallest unit (quantum) of 2^-FracBits: a cost is the natural number of *)
(* quanta it holds.  Temperatures are only compared and are kept as exact  *)
(* rationals <<num, den>>, den > 0 (rounding is monotone, so it does not   *)
(* change the order of two temperatures).                                  *)
(***************************************************************************)
EXTENDS Integers, Sequences, FiniteSets, TLC

\* ---------------------------------------------------------------- bounds
Prec == 4          \* significand bits of the modelled float format
FracBits == 2      \* 1.0 is 2^FracBits quanta
MaxSteps == 3      \* largest max_steps passed to run_optimization
MaxEntry == 9      \* largest entry (in quanta) of an arbitrary distance table
MaxCoord == 2      \* largest coordinate of a city
MaxK == 3          \* largest step index a cooling schedule is queried at

\* ------------------------------------------------------- float arithmetic
RECURSIVE Pow(_, _)
Pow(b, e) == IF e = 0 THEN 1 ELSE b * Pow(b, e - 1)

Unit == Pow(2, FracBits)

\* The exponent e >= 0 with 2^(Prec+e-1) <= x < 2^(Prec+e); 0 below 2^Prec.
RECURSIVE Exponent(_, _)
Exponent(x, e) == IF x < Pow(2, Prec + e) THEN e ELSE Exponent(x, e + 1)

\* x (a natural number of quanta) rounded to Prec significant bits, ties to
\* the even significand: the result of one IEEE-754 operation whose exact
\* value is x.
RoundOf(x) ==
    LET step == Pow(2, Exponent(x, 0))
        q == x \div step
        r == x % step
    IN  IF 2 * r < step THEN q * step
        ELSE IF 2 * r > step THEN (q + 1) * step
        ELSE IF q % 2 = 0 THEN q * step ELSE (q + 1) * step

\* No sum or difference of the model exceeds RoundLimit quanta: a tour has
\* at most 4 edges, each below MaxEntry or 2 * MaxCoord * Unit quanta. The
\* roundings up to it are computed once.
RoundLimit == 8 * (MaxEntry + 2 * MaxCoord * Unit)
RoundTable == [x \in 0..RoundLimit |-> RoundOf(x)]

Round(x) == RoundTable[x]

IsFloat(x) == Round(x) = x

\* a + b of two non-negative floats.
FAdd(a, b) == Round(a + b)

\* a - b of two non-negative floats; the sign is exact.
FSub(a, b) == IF a >= b THEN Round(a - b) ELSE -Round(b - a)

\* The integer part of the square root of s.
RECURSIVE ISqrtFrom(_, _)
ISqrtFrom(s, r) == IF (r + 1) * (r + 1) > s THEN r ELSE ISqrtFrom(s, r + 1)

\* sqrt(s) in quanta for an integer s (s in squared coordinate units),
\* correctly rounded like math.sqrt: the float nearest to Unit * sqrt(s).
SqrtOf(s) ==
    LET R == s * Unit * Unit
        root == ISqrtFrom(R, 0)
    IN  IF root * root = R THEN Round(root)
        ELSE LET lo == CHOOSE v \in 0..root :
                          IsFloat(v) /\ \A w \in (v + 1)..root : ~IsFloat(w)
                 hi == CHOOSE v \in (root + 1)..(2 * root + 2) :
                          IsFloat(v) /\ \A w \in (root + 1)..(v - 1) : ~IsFloat(w)
             IN  IF 4 * R < (lo + hi) * (lo + hi) THEN lo ELSE hi

\* The square roots of all squared distances of two points with coordinates
\* in 0..MaxCoord, computed once.
SqrtTable == [s \in 0..(2 * MaxCoord * MaxCoord) |-> SqrtOf(s)]

FSqrt(s) == SqrtTable[s]

\* ------------------------------------------------------ geometry and cost
\* Q1b.get_euclidean_dist: math.sqrt of the squared distance of two points
\* with integer coordinates (the squares and their sum are exact).
get_euclidean_dist(c1, c2) ==
    FSqrt((c1[1] - c2[1]) * (c1[1] - c2[1]) + (c1[2] - c2[2]) * (c1[2] - c2[2]))

\* Python's route[i] for a 0-based position i.
At(route, i) == route[i + 1]

\* The running total of Q1b.calculate_tour_cost after the first m edges.
RECURSIVE TourCostUpTo(_, _, _)
TourCostUpTo(route, city_data, m) ==
    IF m = 0 THEN 0
    ELSE FAdd(TourCostUpTo(route, city_data, m - 1),
              get_euclidean_dist(city_data[At(route, m - 1) + 1],
                                 city_data[At(route, m % Len(route)) + 1]))

\* Faulty variant: range(len(route) - 1), the return trip to the first city left out.
calculate_tour_cost_open(route, city_data) ==
    IF Len(route) = 0 THEN 0 ELSE TourCostUpTo(route, city_data, Len(route) - 1)

calculate_tour_cost(route, city_data) ==
    TourCostUpTo(route, city_data, Len(route))

\* Q1_Optimization.simulated_annealing, lines 39-43: the table of pairwise
\* norms, indexed by 0-based city numbers.
BuildDistMatrix(cs) ==
    [i \in 0..(Len(cs) - 1) |->
        [j \in 0..(Len(cs) - 1) |-> get_euclidean_dist(cs[i + 1], cs[j + 1])]]

\* The running total of Q1_Optimization.total_tour_length after m edges.
RECURSIVE TourLengthUpTo(_, _, _)
TourLengthUpTo(tour, dm, m) ==
    IF m = 0 THEN 0
    ELSE FAdd(TourLengthUpTo(tour, dm, m - 1),
              dm[At(tour, m - 1)][At(tour, m % Len(tour))])

total_tour_length(tour, dm) == TourLengthUpTo(tour, dm, Len(tour))

\* ------------------------------------------------------------------ tours
Range(s) == {s[i] : i \in DOMAIN s}

\* The tours over n cities: every index 0..n-1 exactly once.
IsPermutation(t, n) == Len(t) = n /\ Range(t) = 0..(n - 1)

Tours(n) ==
    {t \in [1..n -> 0..(n - 1)] : Range(t) = 0..(n - 1)}

\* Python's list(reversed(s)).
Reverse(s) == [p \in 1..Len(s) |-> s[Len(s) + 1 - p]]

\* Faulty variant: the segment reversed in place element by element, the first half
\* overwritten before it is read (the segment comes out a palindrome).
apply_2opt_move_overwrite(route, i, j) ==
    [route |-> route,
     new_route |-> [p \in 1..Len(route) |->
                      IF p - 1 >= i /\ p - 1 <= j /\ p < (i + 1) + (j + 1) - p
                      THEN route[(i + 1) + (j + 1) - p]
                      ELSE route[p]]]

\* Faulty variant: new_route = route without the copy, so the reversal is done in
\* the caller's list.
apply_2opt_move_inplace(route, i, j) ==
    LET reversed == [p \in 1..Len(route) |->
                        IF p - 1 >= i /\ p - 1 <= j
                        THEN route[(i + 1) + (j + 1) - p]
                        ELSE route[p]]
    IN  [route |-> reversed, new_route |-> reversed]

\* Faulty variant: new_route[i:j] = reversed(new_route[i:j]), the segment
\* without its last position.
apply_2opt_move_half_open(route, i, j) ==
    [route |-> route,
     new_route |-> [p \in 1..Len(route) |->
                      IF p - 1 >= i /\ p - 1 < j
                      THEN route[(i + 1) + j - p]
                      ELSE route[p]]]

\* The effect of Q1b.apply_2opt_move(route) with the sampled positions
\* i < j (0-based): the list the caller passed, as the call leaves it, and
\* the list returned.  new_route is a copy (route[:]), so the slice
\* assignment new_route[i:j+1] = reversed(new_route[i:j+1]) does not reach
\* the caller's list.
apply_2opt_move(route, i, j) ==
    [route |-> route,
     new_route |-> [p \in 1..Len(route) |->
                      IF p - 1 >= i /\ p - 1 <= j
                      THEN route[(i + 1) + (j + 1) - p]
                      ELSE route[p]]]

\* The effect of Q1_Optimization.simulated_annealing lines 62-63 with the
\* sampled positions i # j: new_tour = list(current_tour) is a copy, then
\* new_tour[i], new_tour[j] are exchanged.
swap_neighbour(current, i, j) ==
    [current_tour |-> current,
     new_tour |-> [p \in 1..Len(current) |->
                      IF p - 1 = i THEN current[j + 1]
                      ELSE IF p - 1 = j THEN current[i + 1]
                      ELSE current[p]]]

\* -------------------------------------------------------- cooling schedules
\* A temperature is an exact rational <<num, den>> with den > 0.
RLe(a, b) == a[1] * b[2] <= b[1] * a[2]
RLt(a, b) == a[1] * b[2] < b[1] * a[2]
RMul(a, b) == <<a[1] * b[1], a[2] * b[2]>>
RSub(a, b) == <<a[1] * b[2] - b[1] * a[2], a[2] * b[2]>>
RMax(a, b) == IF RLe(a, b) THEN b ELSE a
RPow(a, e) == <<Pow(a[1], e), Pow(a[2], e)>>

\* The literal 0.001 of Q1b.py lines 61 and 82.
T_floor == <<1, 1000>>

\* ExponentialCooler(t_start, alpha) and LinearCooler(t_start, beta): the
\* constructors store their arguments as given.  A TableCooler stands for
\* any other object with a get_temp method: it answers step k from a table
\* (its last entry from then on).
ExponentialCooler(t_start, alpha) ==
    [kind |-> "ExponentialCooler", t_start |-> t_start, rate |-> alpha, table |-> <<>>]
LinearCooler(t_start, beta) ==
    [kind |-> "LinearCooler", t_start |-> t_start, rate |-> beta, table |-> <<>>]
TableCooler(table) ==
    [kind |-> "TableCooler", t_start |-> table[1], rate |-> <<0, 1>>, table |-> table]

Min(a, b) == IF a <= b THEN a ELSE b

\* Q1b.py line 71: max_steps=10000.
DefaultMaxSteps == 10000
\* A max_steps above the default, for runs that the schedule ends.
MaxScenarioSteps == 13200

\* Q1b.py line 117: ExponentialCooler(t_start=500.0, alpha=0.999).
ExponentialScenario == ExponentialCooler(<<500, 1>>, <<999, 1000>>)

\* The powers of 999/1000 up to 10000 and more have no exact rational in
\* the integers of the model, so for this cooler t_start * alpha ** k is
\* computed in a binary float of 21 significant bits: <<m, d>> stands for
\* m / d with d a power of two and 2^20 <= m < 2^21 (m may be smaller once
\* d is 2^30).  One multiplication by alpha, rounded to nearest even:
MantMin == Pow(2, 20)
DenMax == Pow(2, 30)

RoundDiv(p, q) ==
    LET d == p \div q
        r == p % q
    IN  IF 2 * r > q \/ (2 * r = q /\ d % 2 = 1) THEN d + 1 ELSE d

FloatTimes(x, alpha) ==
    IF RoundDiv(x[1] * alpha[1], alpha[2]) < MantMin /\ x[2] < DenMax
    THEN <<RoundDiv(2 * x[1] * alpha[1], alpha[2]), 2 * x[2]>>
    ELSE <<RoundDiv(x[1] * alpha[1], alpha[2]), x[2]>>

RECURSIVE FloatOf(_)
FloatOf(x) == IF x[1] >= MantMin THEN x ELSE FloatOf(<<2 * x[1], 2 * x[2]>>)

\* m multiplications by alpha, one after the other: the first half of
\* them, then the rest.  (The intermediate product is bound as a value
\* before the second half uses it.)
RECURSIVE FloatTimesBy(_, _, _)
FloatTimesBy(x, alpha, m) ==
    IF m = 0 THEN x
    ELSE IF m = 1 THEN FloatTimes(x, alpha)
    ELSE CHOOSE z \in {FloatTimesBy(y, alpha, m - m \div 2) :
                         y \in {FloatTimesBy(x, alpha, m \div 2)}} : TRUE

\* t_start * alpha ** kk for every kk up to MaxScenarioSteps, computed
\* once: for every multiple of 4096, from those for every multiple of 512,
\* of 64, of 8, and from those for every kk.
ScenarioPowers4096 ==
    [c \in 0..(MaxScenarioSteps \div 4096) |->
        FloatTimesBy(FloatOf(ExponentialScenario.t_start), ExponentialScenario.rate, 4096 * c)]

ScenarioPowers512 ==
    [c \in 0..(MaxScenarioSteps \div 512) |->
        FloatTimesBy(ScenarioPowers4096[c \div 8], ExponentialScenario.rate, 512 * (c % 8))]

ScenarioPowers64 ==
    [c \in 0..(MaxScenarioSteps \div 64) |->
        FloatTimesBy(ScenarioPowers512[c \div 8], ExponentialScenario.rate, 64 * (c % 8))]

ScenarioPowers8 ==
    [c \in 0..(MaxScenarioSteps \div 8) |->
        FloatTimesBy(ScenarioPowers64[c \div 8], ExponentialScenario.rate, 8 * (c % 8))]

ScenarioPowers ==
    [kk \in 0..MaxScenarioSteps |->
        FloatTimesBy(ScenarioPowers8[kk \div 8], ExponentialScenario.rate, kk % 8)]

\* ExponentialCooler.get_temp: t_start * alpha ** k.
ExponentialGetTemp(c, k) ==
    IF c = ExponentialScenario
    THEN ScenarioPowers[k]
    ELSE RMul(c.t_start, RPow(c.rate, k))

\* Faulty variant: a floor of 0.01 in the cooler, above the 0.001 the loop
\* compares with.
LinearGetTempHighFloor(c, k) ==
    RMax(<<1, 100>>, RSub(c.t_start, RMul(c.rate, <<k, 1>>)))

\* LinearCooler.get_temp: max(0.001, t_start - beta * k).
LinearGetTemp(c, k) == RMax(T_floor, RSub(c.t_start, RMul(c.rate, <<k, 1>>)))

\* scheduler.get_temp(k), dispatched on the scheduler's class.
get_temp(c, k) ==
    CASE c.kind = "ExponentialCooler" -> ExponentialGetTemp(c, k)
      [] c.kind = "LinearCooler" -> LinearGetTemp(c, k)
      [] c.kind = "TableCooler" -> c.table[Min(k + 1, Len(c.table))]

\* Faulty variant: a cooler that cools itself at every query,
\* self.t_start = get_temp(1), and returns the new self.t_start.
scheduler_call_cooling(c, k) ==
    [self |-> [c EXCEPT !.t_start = get_temp(c, 1)], value |-> get_temp(c, 1)]

\* Q1b.py lines 51-52, 60-61: one call scheduler.get_temp(k): the cooler
\* as the call leaves it and the value returned.  Neither get_temp assigns
\* to a field of self.
scheduler_call(c, k) == [self |-> c, value |-> get_temp(c, k)]

\* Faulty variant: if temp < 0.001: break.
ShouldBreakStrict(t) == RLt(t, T_floor)

\* Faulty variant: the T_min = 1.0 of Q1_Optimization.py as the floor,
\* if temp <= 1.0: break.
ShouldBreakUnit(t) == RLe(t, <<1, 1>>)

\* Faulty variant: if temp < 0: break.
ShouldBreakNegative(t) == RLt(t, <<0, 1>>)

\* Q1b.py line 82: if temp <= 0.001: break.
ShouldBreak(t) == RLe(t, T_floor)

\* ------------------------------------------------------ Metropolis criterion
\* random.random() < math.exp(-delta / temp) for delta >= 0 and temp > 0.
\* The draw is in [0, 1) and exp(-0 / temp) is 1.0, so the test is true for
\* delta = 0 whatever is drawn; for delta > 0 the draw falls below or not
\* below the threshold.
Draws == {"below", "notbelow"}
DrawIsBelowExp(delta, draw) == delta = 0 \/ draw = "below"

\* Faulty variant: the comparison of delta inverted, delta > 0 or ... .
MetropolisAcceptInverted(delta, draw) == delta > 0 \/ DrawIsBelowExp(delta, draw)

\* Q1b.py line 90, Q1_Optimization.py line 69:
\* delta < 0 or random.random() < math.exp(-delta / temp).
MetropolisAccept(delta, draw) == delta < 0 \/ DrawIsBelowExp(delta, draw)

\* Faulty variant: the best is overwritten by every accepted candidate.
UpdateBestAlways(cur_state, cur_cost, b_state, b_cost) ==
    [best_state |-> cur_state, best_cost |-> cur_cost]

\* Faulty variant: best_cost is updated and best_state is not.
UpdateBestCostOnly(cur_state, cur_cost, b_state, b_cost) ==
    IF cur_cost < b_cost
    THEN [best_state |-> b_state, best_cost |-> cur_cost]
    ELSE [best_state |-> b_state, best_cost |-> b_cost]

\* Faulty variant: if current_cost <= best_cost.
UpdateBestOnTie(cur_state, cur_cost, b_state, b_cost) ==
    IF cur_cost <= b_cost
    THEN [best_state |-> cur_state, best_cost |-> cur_cost]
    ELSE [best_state |-> b_state, best_cost |-> b_cost]

\* Faulty variant: the best is never replaced.
UpdateBestNever(cur_state, cur_cost, b_state, b_cost) ==
    [best_state |-> b_state, best_cost |-> b_cost]

\* Q1b.py lines 95-97, Q1_Optimization.py lines 73-75: the global best
\* after the candidate (now current) was accepted.
UpdateBest(cur_state, cur_cost, b_state, b_cost) ==
    IF cur_cost < b_cost
    THEN [best_state |-> cur_state, best_cost |-> cur_cost]
    ELSE [best_state |-> b_state, best_cost |-> b_cost]

\* Faulty variant: current_state = candidate dedented out of the if, so a rejected
\* candidate still replaces the current tour.
MetropolisStepDedent(cur_state, cur_cost, b_state, b_cost, cand, cand_cost, draw) ==
    LET d == FSub(cand_cost, cur_cost)
    IN  IF (d < 0 \/ DrawIsBelowExp(d, draw))
        THEN [current_state |-> cand, current_cost |-> cand_cost,
              best_state |-> IF cand_cost < b_cost THEN cand ELSE b_state,
              best_cost |-> IF cand_cost < b_cost THEN cand_cost ELSE b_cost,
              delta |-> d, decision |-> "accept"]
        ELSE [current_state |-> cand, current_cost |-> cur_cost,
              best_state |-> b_state, best_cost |-> b_cost,
              delta |-> d, decision |-> "reject"]

\* Faulty variant: lines 95-97 left out, so that the best is never updated.
MetropolisStepNoBest(cur_state, cur_cost, b_state, b_cost, cand, cand_cost, draw) ==
    LET d == FSub(cand_cost, cur_cost)
    IN  IF (d < 0 \/ DrawIsBelowExp(d, draw))
        THEN [current_state |-> cand, current_cost |-> cand_cost,
              best_state |-> b_state, best_cost |-> b_cost,
              delta |-> d, decision |-> "accept"]
        ELSE [current_state |-> cur_state, current_cost |-> cur_cost,
              best_state |-> b_state, best_cost |-> b_cost,
              delta |-> d, decision |-> "reject"]

\* Q1b.py lines 89-97, Q1_Optimization.py lines 68-75: one accept/reject
\* decision and what it leaves in current and best.
MetropolisStep(cur_state, cur_cost, b_state, b_cost, cand, cand_cost, draw) ==
    LET d == FSub(cand_cost, cur_cost)
    IN  IF MetropolisAccept(d, draw)
        THEN LET b == UpdateBest(cand, cand_cost, b_state, b_cost)
             IN  [current_state |-> cand, current_cost |-> cand_cost,
                  best_state |-> b.best_state, best_cost |-> b.best_cost,
                  delta |-> d, decision |-> "accept"]
        ELSE [current_state |-> cur_state, current_cost |-> cur_cost,
              best_state |-> b_state, best_cost |-> b_cost,
              delta |-> d, decision |-> "reject"]

\* ------------------------------------------------------------------- state
VARIABLES
    engine,          \* "twoopt": Q1b run_optimization; "swap": Q1_Optimization simulated_annealing
    cities,          \* the city coordinates given to the engine
    dist_matrix,     \* swap engine: the precomputed distance table
    scheduler,       \* 2-opt engine: the scheduler argument
    max_steps,       \* 2-opt engine: the max_steps argument
    schedule_type,   \* swap engine: the schedule_type argument
    pc,              \* "loop" (loop head), "decide" (candidate built), "done", "error"
    k,               \* number of completed loop iterations (the 2-opt engine's k)
    temp,            \* 2-opt engine: the temperature last read from the scheduler
    T,               \* swap engine: the temperature, in units of 1/TUnit
    current_state,   \* current tour (current_tour in the swap engine)
    current_cost,
    best_state,      \* best tour (best_tour in the swap engine)
    best_cost,
    candidate,       \* the neighbour last built (new_tour in the swap engine)
    candidate_cost,
    delta,           \* candidate_cost - current_cost of the last Metropolis test
    decision,        \* branch the last Metropolis test took: "accept", "reject", "none"
    result,          \* the returned tuple once the run is done
    tour,            \* cost evaluation: the tour given
    variant,         \* cost evaluation: a rotation or the reversal of tour
    k1,              \* schedule query: an earlier step index
    k2,              \* schedule query: a later step index
    queried,         \* schedule query: for every k, the temperature first returned for it
    last_k,          \* schedule query: the k of the last query
    stream,          \* two runs: the outputs of the seeded generator that a run has read so far
    runs,            \* two runs: the state of each of two runs of run_optimization
    original_data,   \* Q5b: the global list given to ThreadedSorter
    final_sorted_array, \* Q5b: the global list the merge thread fills
    sorter,          \* Q5b: the ThreadedSorter's mid, left_half and right_half
    threads,         \* Q5b: where run_sort (main) and the threads t0, t1, tm are
    merge,           \* Q5b: the locals i, j, k of merge_sublists
    root,            \* Q3: the tree the centers are counted for
    planner,         \* Q3: the NetworkServicePlanner (its total_centers)
    returned,        \* Q3: what the calls of calculate_min_centers(root) returned, in order
    cameras,         \* Q3_ServiceCenter: what min_camera_cover(root) returned
    tile_multipliers, \* Q2, Q2_TileShatter: the list given to the solver
    solver,          \* Q2, Q2_TileShatter: the function running, its locals and its result
    start_city,      \* Q6: the start given to get_astar_path
    astar,           \* Q6: get_astar_path's pq, visited_costs and result
    offline_nodes,   \* Q5a: NetworkModel.offline_nodes
    selected_nodes,  \* Q5a: AdvancedApp.selected_nodes
    console          \* Q5a: the kind of the last message a handler logged or showed

evars == <<engine, cities, dist_matrix, scheduler, max_steps, schedule_type, pc, k,
           temp, T, current_state, current_cost, best_state, best_cost,
           candidate, candidate_cost, delta, decision, result>>
cvars == <<tour, variant>>
qvars == <<k1, k2>>
hvars == <<queried, last_k>>
wvars == <<stream, runs>>
svars == <<original_data, final_sorted_array, sorter, threads, merge>>
tvars == <<root, planner, returned, cameras>>
gvars == <<tile_multipliers, solver>>
avars == <<start_city, astar>>
nvars == <<offline_nodes, selected_nodes, console>>
zvars == <<gvars, avars, nvars>>
xvars == <<svars, tvars, zvars>>
ovars == <<hvars, wvars, xvars>>
vars == <<evars, cvars, qvars, ovars>>

\* ------------------------------------------------------------------ inputs
UnitSquare == <<(<<0, 0>>), (<<1, 0>>), (<<1, 1>>), (<<0, 1>>)>>

CityInputs ==
    { <<>>,
      << <<0, 0>> >>,
      << <<0, 0>>, <<1, 1>> >>,
      << <<0, 0>>, <<2, 0>>, <<1, 2>> >>,
      UnitSquare,
      << <<0, 0>>, <<2, 1>>, <<1, 0>>, <<1, 2>> >> }

SwapCityInputs == {cs \in CityInputs : Len(cs) <= 3}

Schedulers ==
    { ExponentialCooler(<<1, 250>>, <<1, 2>>),
      ExponentialCooler(<<500, 1>>, <<1, 2>>),
      LinearCooler(<<3, 1000>>, <<1, 1000>>),
      LinearCooler(<<500, 1>>, <<1, 20>>),
      ExponentialCooler(<<1, 1>>, <<2, 1>>),
      LinearCooler(<<0, 1>>, <<1, 20>>),
      TableCooler(<< <<5, 1>>, <<0, 1>>, <<5, 1>> >>),
      TableCooler(<< <<1, 1>>, <<2, 1>>, <<3, 1>> >>),
      TableCooler(<< <<-1, 1>> >>) }

NoScheduler == TableCooler(<< <<0, 1>> >>)
NoTemp == <<0, 0>>

\* Q1_Optimization.py lines 54-57: T = 1000.0, T_min = 1.0, alpha = 0.99,
\* beta = 0.5.  T is kept in units of 1/TUnit.
TUnit == 1000 * 1000
SA_T == 1000
SA_T_min == 1
SA_alpha == <<99, 100>>
SA_beta == <<1, 2>>

\* Q1_Optimization.py lines 78-81: the cooled temperature.  T * alpha is
\* rounded to the nearest unit (T - round(T * (1 - alpha))), T - beta is exact.
Cool(t, stype) ==
    IF stype = "exponential"
    THEN t - ((t * (SA_alpha[2] - SA_alpha[1]) + SA_alpha[2] \div 2) \div SA_alpha[2])
    ELSE t - (TUnit * SA_beta[1]) \div SA_beta[2]

\* ---------------------------------------------------------------- Init
IdleCost == tour = <<>> /\ variant = <<>>
IdleQuery == k1 = 0 /\ k2 = 0
IdleHistory == queried = <<>> /\ last_k = 0
IdleTwin == stream = <<>> /\ runs = <<>>
IdleSort ==
    /\ original_data = <<>> /\ final_sorted_array = <<>>
    /\ sorter = [mid |-> 0, left_half |-> <<>>, right_half |-> <<>>]
    /\ threads = [t \in {"main", "t0", "t1", "tm"} |-> "idle"]
    /\ merge = [i |-> 0, j |-> 0, k |-> 0]
IdleTree ==
    /\ root = <<>> /\ planner = [total_centers |-> 0]
    /\ returned = <<>> /\ cameras = <<>>
IdleTiles == tile_multipliers = <<>> /\ solver = [fn |-> "none"]
IdleSearch == start_city = "" /\ astar = [at |-> "idle"]
IdleNetwork == offline_nodes = {} /\ selected_nodes = <<>> /\ console = "none"
IdleLater == IdleTiles /\ IdleSearch /\ IdleNetwork
IdleExtra == IdleSort /\ IdleTree /\ IdleLater
IdleOther == IdleHistory /\ IdleTwin /\ IdleExtra

\* Q1b.py lines 67-78: the state when run_optimization first reaches its
\* loop: a shuffled tour as current and best.
InitTwoOpt ==
    /\ engine = "twoopt"
    /\ cities \in CityInputs
    /\ dist_matrix = <<>>
    /\ scheduler \in Schedulers
    /\ max_steps \in 0..MaxSteps
    /\ schedule_type = "none"
    /\ T = 0
    /\ current_state \in Tours(Len(cities))
    /\ current_cost = calculate_tour_cost(current_state, cities)
    /\ best_state = current_state
    /\ best_cost = current_cost

\* Q1_Optimization.py lines 39-57: the state when simulated_annealing first
\* reaches its loop.
InitSwap ==
    /\ engine = "swap"
    /\ cities \in SwapCityInputs
    /\ dist_matrix = BuildDistMatrix(cities)
    /\ scheduler = NoScheduler
    /\ max_steps = 0
    /\ schedule_type \in {"linear", "exponential"}
    /\ T = SA_T * TUnit
    /\ current_state \in Tours(Len(cities))
    /\ current_cost = total_tour_length(current_state, dist_matrix)
    /\ best_state = current_state
    /\ best_cost = current_cost

Init ==
    /\ InitTwoOpt \/ InitSwap
    /\ pc = "loop"
    /\ k = 0
    /\ temp = NoTemp
    /\ candidate = <<>>
    /\ candidate_cost = 0
    /\ delta = 0
    /\ decision = "none"
    /\ result = <<>>
    /\ IdleCost
    /\ IdleQuery
    /\ IdleOther

\* ------------------------------------------------- 2-opt engine (Q1b.py)
n == Len(cities)

\* Lines 80, 99: range(max_steps) is exhausted; return best_state, best_cost.
TwoOptExhausted ==
    /\ engine = "twoopt" /\ pc = "loop"
    /\ k >= max_steps
    /\ pc' = "done"
    /\ result' = <<best_state, best_cost>>
    /\ UNCHANGED <<engine, cities, dist_matrix, scheduler, max_steps, schedule_type,
                   k, temp, T, current_state, current_cost, best_state, best_cost,
                   candidate, candidate_cost, delta, decision>>
    /\ UNCHANGED <<cvars, qvars, ovars>>

\* Lines 81-82, 99: the temperature of step k is at the floor; break and return.
TwoOptBreak ==
    /\ engine = "twoopt" /\ pc = "loop"
    /\ k < max_steps
    /\ temp' = get_temp(scheduler, k)
    /\ ShouldBreak(temp')
    /\ pc' = "done"
    /\ result' = <<best_state, best_cost>>
    /\ UNCHANGED <<engine, cities, dist_matrix, scheduler, max_steps, schedule_type,
                   k, T, current_state, current_cost, best_state, best_cost,
                   candidate, candidate_cost, delta, decision>>
    /\ UNCHANGED <<cvars, qvars, ovars>>

\* Lines 81-86 with fewer than two cities: random.sample(range(n), 2) raises
\* ValueError and the run ends without a result.
TwoOptSampleError ==
    /\ engine = "twoopt" /\ pc = "loop"
    /\ k < max_steps
    /\ temp' = get_temp(scheduler, k)
    /\ ~ShouldBreak(temp')
    /\ n < 2
    /\ pc' = "error"
    /\ UNCHANGED <<engine, cities, dist_matrix, scheduler, max_steps, schedule_type,
                   k, T, current_state, current_cost, best_state, best_cost,
                   candidate, candidate_cost, delta, decision, result>>
    /\ UNCHANGED <<cvars, qvars, ovars>>

\* Lines 81-86: read the temperature, build the 2-opt neighbour of
\* current_state and cost it.
TwoOptPropose ==
    /\ engine = "twoopt" /\ pc = "loop"
    /\ k < max_steps
    /\ temp' = get_temp(scheduler, k)
    /\ ~ShouldBreak(temp')
    /\ n >= 2
    /\ \E i \in 0..(n - 1), j \in 0..(n - 1) :
          /\ i < j
          /\ LET move == apply_2opt_move(current_state, i, j)
             IN  /\ current_state' = move.route
                 /\ candidate' = move.new_route
                 /\ candidate_cost' = calculate_tour_cost(move.new_route, cities)
    /\ pc' = "decide"
    /\ UNCHANGED <<engine, cities, dist_matrix, scheduler, max_steps, schedule_type,
                   k, T, current_cost, best_state, best_cost, delta, decision, result>>
    /\ UNCHANGED <<cvars, qvars, ovars>>

\* Lines 89-97: the Metropolis test and the updates it guards; then the
\* next value of k.
TwoOptDecide ==
    /\ engine = "twoopt" /\ pc = "decide"
    /\ \E draw \in Draws :
          LET s == MetropolisStep(current_state, current_cost, best_state, best_cost,
                                  candidate, candidate_cost, draw)
          IN  /\ current_state' = s.current_state
              /\ current_cost' = s.current_cost
              /\ best_state' = s.best_state
              /\ best_cost' = s.best_cost
              /\ delta' = s.delta
              /\ decision' = s.decision
    /\ k' = k + 1
    /\ pc' = "loop"
    /\ UNCHANGED <<engine, cities, dist_matrix, scheduler, max_steps, schedule_type,
                   temp, T, candidate, candidate_cost, result>>
    /\ UNCHANGED <<cvars, qvars, ovars>>

\* ------------------------------------- swap engine (Q1_Optimization.py)
\* Line 59: while T > T_min.
SwapLoopCondition(t) == t > SA_T_min * TUnit

\* Lines 59, 83: the loop condition fails; return best_cost, best_tour.
SwapStop ==
    /\ engine = "swap" /\ pc = "loop"
    /\ ~SwapLoopCondition(T)
    /\ pc' = "done"
    /\ result' = <<best_cost, best_state>>
    /\ UNCHANGED <<engine, cities, dist_matrix, scheduler, max_steps, schedule_type,
                   k, temp, T, current_state, current_cost, best_state, best_cost,
                   candidate, candidate_cost, delta, decision>>
    /\ UNCHANGED <<cvars, qvars, ovars>>

\* Line 61 with fewer than two cities: random.sample raises ValueError.
SwapSampleError ==
    /\ engine = "swap" /\ pc = "loop"
    /\ SwapLoopCondition(T)
    /\ n < 2
    /\ pc' = "error"
    /\ UNCHANGED <<engine, cities, dist_matrix, scheduler, max_steps, schedule_type,
                   k, temp, T, current_state, current_cost, best_state, best_cost,
                   candidate, candidate_cost, delta, decision, result>>
    /\ UNCHANGED <<cvars, qvars, ovars>>

\* Lines 61-65: build the swap neighbour of current_tour and cost it.
SwapPropose ==
    /\ engine = "swap" /\ pc = "loop"
    /\ SwapLoopCondition(T)
    /\ n >= 2
    /\ \E i \in 0..(n - 1), j \in 0..(n - 1) :
          /\ i # j
          /\ LET move == swap_neighbour(current_state, i, j)
             IN  /\ current_state' = move.current_tour
                 /\ candidate' = move.new_tour
                 /\ candidate_cost' = total_tour_length(move.new_tour, dist_matrix)
    /\ pc' = "decide"
    /\ UNCHANGED <<engine, cities, dist_matrix, scheduler, max_steps, schedule_type,
                   k, temp, T, current_cost, best_state, best_cost, delta, decision, result>>
    /\ UNCHANGED <<cvars, qvars, ovars>>

\* Lines 68-81: the Metropolis test and the updates it guards; then cool.
SwapDecide ==
    /\ engine = "swap" /\ pc = "decide"
    /\ \E draw \in Draws :
          LET s == MetropolisStep(current_state, current_cost, best_state, best_cost,
                                  candidate, candidate_cost, draw)
          IN  /\ current_state' = s.current_state
              /\ current_cost' = s.current_cost
              /\ best_state' = s.best_state
              /\ best_cost' = s.best_cost
              /\ delta' = s.delta
              /\ decision' = s.decision
    /\ T' = Cool(T, schedule_type)
    /\ k' = k + 1
    /\ pc' = "loop"
    /\ UNCHANGED <<engine, cities, dist_matrix, scheduler, max_steps, schedule_type,
                   temp, candidate, candidate_cost, result>>
    /\ UNCHANGED <<cvars, qvars, ovars>>

NextTwoOpt ==
    \/ TwoOptExhausted
    \/ TwoOptBreak
    \/ TwoOptSampleError
    \/ TwoOptPropose
    \/ TwoOptDecide

NextSwap ==
    \/ SwapStop
    \/ SwapSampleError
    \/ SwapPropose
    \/ SwapDecide

Next == NextTwoOpt \/ NextSwap

Spec == Init /\ [][Next]_vars

\* The 2-opt engine alone.
InitTwoOptRun ==
    /\ InitTwoOpt
    /\ pc = "loop" /\ k = 0 /\ temp = NoTemp /\ candidate = <<>>
    /\ candidate_cost = 0 /\ delta = 0 /\ decision = "none" /\ result = <<>>
    /\ IdleCost /\ IdleQuery /\ IdleOther

SpecTwoOpt == InitTwoOptRun /\ [][NextTwoOpt]_vars

\* ------------------------------------------------ cost evaluation alone
\* The cost function of either file applied to a tour and to its rotations
\* and reversal.  engine says whose function is applied: "twoopt" is
\* Q1b.calculate_tour_cost over city coordinates, "swap" is
\* Q1_Optimization.total_tour_length over a distance table.
CostOf(t) ==
    IF engine = "twoopt" THEN calculate_tour_cost(t, cities)
    ELSE total_tour_length(t, dist_matrix)

\* The symmetric m x m tables with a zero diagonal and float entries of at
\* most MaxEntry quanta: one entry w[<<a, b>>] for every pair a < b.
TableEntries == {x \in 0..MaxEntry : IsFloat(x)}

CityPairs(m) == {pr \in (0..(m - 1)) \X (0..(m - 1)) : pr[1] < pr[2]}

SymmetricTables(m) ==
    { [a \in 0..(m - 1) |->
         [b \in 0..(m - 1) |->
            IF a = b THEN 0 ELSE IF a < b THEN w[<<a, b>>] ELSE w[<<b, a>>]]] :
      w \in [CityPairs(m) -> TableEntries] }

DistTables == SymmetricTables(2) \cup SymmetricTables(3)

RotateLeft(t) == IF Len(t) = 0 THEN t ELSE Append(Tail(t), Head(t))

RECURSIVE RotateBy(_, _)
RotateBy(t, m) == IF m = 0 THEN t ELSE RotateBy(RotateLeft(t), m - 1)

Rotations(t) == {RotateBy(t, m) : m \in 0..Len(t)}

IdleEngine ==
    /\ scheduler = NoScheduler /\ max_steps = 0 /\ schedule_type = "none"
    /\ k = 0 /\ temp = NoTemp /\ T = 0
    /\ current_state = <<>> /\ current_cost = 0
    /\ best_state = <<>> /\ best_cost = 0
    /\ candidate = <<>> /\ candidate_cost = 0
    /\ delta = 0 /\ decision = "none" /\ result = <<>>

CostCityInputs == CityInputs \cup { << <<0, 0>>, <<1, 0>>, <<0, 1>> >> }

InitCost ==
    /\ \/ engine = "twoopt" /\ cities \in CostCityInputs /\ dist_matrix = <<>>
          /\ tour \in Tours(Len(cities))
       \/ engine = "swap" /\ cities = <<>> /\ dist_matrix \in DistTables
          /\ tour \in Tours(Cardinality(DOMAIN dist_matrix))
    /\ variant = tour
    /\ pc = "cost"
    /\ IdleEngine
    /\ IdleQuery
    /\ IdleOther

\* The next cyclic rotation of the tour.
RotateTour ==
    /\ pc = "cost"
    /\ variant \in Rotations(tour)
    /\ variant' = RotateLeft(variant)
    /\ UNCHANGED <<evars, tour, qvars, ovars>>

\* The full reversal of the tour.
ReverseTour ==
    /\ pc = "cost"
    /\ variant' = Reverse(tour)
    /\ UNCHANGED <<evars, tour, qvars, ovars>>

NextCost == RotateTour \/ ReverseTour

SpecCost == InitCost /\ [][NextCost]_vars

\* ------------------------------ cost evaluation of any index sequence
\* What a list or array index does with x when the length is m: negative
\* indices count from the end, anything outside -m..m-1 raises IndexError.
IndexInRange(x, m) == -m <= x /\ x < m
WrapIndex(x, m) == IF x < 0 THEN x + m ELSE x

\* Q1b.py lines 18-27, Q1_Optimization.py lines 30-35 called with any
\* sequence of integers as the tour over m cities: the exception raised or
\* the cost returned.  Every element of the sequence is used as an index,
\* and nothing else about the sequence is looked at.
cost_call(route, m) ==
    IF \E q \in DOMAIN route : ~IndexInRange(route[q], m)
    THEN [raised |-> "IndexError", value |-> 0]
    ELSE [raised |-> "none",
          value |-> CostOf([q \in DOMAIN route |-> WrapIndex(route[q], m)])]

\* The number of cities of the evaluation's city list or distance table.
NumCities == IF engine = "twoopt" THEN Len(cities) ELSE Cardinality(DOMAIN dist_matrix)

InitRoute ==
    /\ \/ engine = "twoopt" /\ cities \in CostCityInputs /\ dist_matrix = <<>>
       \/ engine = "swap" /\ cities = <<>> /\ dist_matrix \in SymmetricTables(2)
    /\ tour = <<>> /\ variant = <<>>
    /\ pc = "route"
    /\ IdleEngine
    /\ IdleQuery
    /\ IdleOther

\* The caller builds the tour argument: any integer from -1 to the number
\* of cities, up to one element more than there are cities.
RouteAppend ==
    /\ pc = "route"
    /\ Len(tour) <= NumCities
    /\ \E x \in -1..NumCities : tour' = Append(tour, x)
    /\ UNCHANGED <<evars, variant, qvars, ovars>>

\* The call: calculate_tour_cost(tour, cities) or
\* total_tour_length(tour, dist_matrix).
RouteEvaluate ==
    /\ pc = "route"
    /\ pc' = "evaluated"
    /\ result' = cost_call(tour, NumCities)
    /\ UNCHANGED <<engine, cities, dist_matrix, scheduler, max_steps, schedule_type,
                   k, temp, T, current_state, current_cost, best_state, best_cost,
                   candidate, candidate_cost, delta, decision>>
    /\ UNCHANGED <<cvars, qvars, ovars>>

NextRoute == RouteAppend \/ RouteEvaluate

SpecRoute == InitRoute /\ [][NextRoute]_vars

\* ------------------------------------------------- schedule queries alone
Rationals(nums, dens) == {<<a, b>> : a \in nums, b \in dens}

\* Coolers as the constructors build them: no argument is checked.
CoolerInputs ==
    {ExponentialCooler(t, a) : t \in Rationals({-1, 0, 1, 3}, {1, 250}),
                               a \in Rationals({-1, 0, 1, 2}, {1, 2})}
    \cup
    {LinearCooler(t, b) : t \in Rationals({-1, 0, 1, 3}, {1, 250}),
                          b \in Rationals({-1, 0, 1, 2}, {1, 2})}

InitCool ==
    /\ engine = "none" /\ cities = <<>> /\ dist_matrix = <<>>
    /\ pc = "query"
    /\ scheduler \in CoolerInputs
    /\ max_steps = 0 /\ schedule_type = "none"
    /\ k = 0 /\ temp = NoTemp /\ T = 0
    /\ current_state = <<>> /\ current_cost = 0
    /\ best_state = <<>> /\ best_cost = 0
    /\ candidate = <<>> /\ candidate_cost = 0
    /\ delta = 0 /\ decision = "none" /\ result = <<>>
    /\ IdleCost
    /\ k1 = 0 /\ k2 = 0
    /\ queried = [kq \in 0..MaxK |-> NoTemp]
    /\ last_k = 0
    /\ IdleTwin /\ IdleExtra

\* One call scheduler.get_temp(kq) and the record of what it returned.
Query(kq) ==
    LET call == scheduler_call(scheduler, kq)
    IN  /\ scheduler' = call.self
        /\ temp' = call.value
        /\ queried' = IF queried[kq] = NoTemp
                       THEN [queried EXCEPT ![kq] = call.value]
                       ELSE queried
        /\ last_k' = kq

\* Query a later step: get_temp(k2 + 1).
QueryLater ==
    /\ pc = "query"
    /\ k2 < MaxK
    /\ k2' = k2 + 1
    /\ Query(k2')
    /\ UNCHANGED <<engine, cities, dist_matrix, max_steps, schedule_type, pc,
                   k, T, current_state, current_cost, best_state, best_cost,
                   candidate, candidate_cost, delta, decision, result>>
    /\ UNCHANGED <<cvars, k1, wvars, xvars>>

\* Move the earlier step up: get_temp(k1 + 1).
QueryEarlier ==
    /\ pc = "query"
    /\ k1 + 1 < k2
    /\ k1' = k1 + 1
    /\ Query(k1')
    /\ UNCHANGED <<engine, cities, dist_matrix, max_steps, schedule_type, pc,
                   k, T, current_state, current_cost, best_state, best_cost,
                   candidate, candidate_cost, delta, decision, result>>
    /\ UNCHANGED <<cvars, k2, wvars, xvars>>

\* Query any step, queried before or not, in any order: get_temp(kq).
QueryAny ==
    /\ pc = "query"
    /\ \E kq \in 0..MaxK : Query(kq)
    /\ UNCHANGED <<engine, cities, dist_matrix, max_steps, schedule_type, pc,
                   k, T, current_state, current_cost, best_state, best_cost,
                   candidate, candidate_cost, delta, decision, result>>
    /\ UNCHANGED <<cvars, qvars, wvars, xvars>>

NextCool == QueryLater \/ QueryEarlier \/ QueryAny

SpecCool == InitCool /\ [][NextCool]_vars

\* ------------------------------------- two runs from one seed (Q1b.py)
\* Two runs of run_optimization on the same cities with the same scheduler
\* and max_steps, each with a generator of its own seeded alike.  A seeded
\* generator returns a fixed sequence of outputs; stream holds as much of
\* that sequence as either run has read, and a run that reads past its end
\* finds out the next output.  The runs advance independently.
MaxWord == 2
Words == 0..MaxWord

\* Faulty variant: a generator seeded from the system's entropy returns
\* any output, whatever the other run has read at that position.
random_next_unseeded(strm, p, w) == w \in Words

\* The p-th output of the seeded generator is w: lines 39, 74, 90 draw from
\* the module-level generator of random and from nothing else.
random_next(strm, p, w) == w \in Words /\ (p <= Len(strm) => strm[p] = w)

Reveal(strm, p, w) == IF p <= Len(strm) THEN strm ELSE Append(strm, w)

RECURSIVE Fact(_)
Fact(m) == IF m <= 1 THEN 1 ELSE m * Fact(m - 1)

RemoveAt(t, p) == [q \in 1..(Len(t) - 1) |-> IF q < p THEN t[q] ELSE t[q + 1]]

\* Lines 73-74: list(range(n)) shuffled; the generator's output decides
\* which element goes first, which of the rest second, and so on.
RECURSIVE ShuffleOf(_, _)
ShuffleOf(items, w) ==
    IF Len(items) = 0 THEN <<>>
    ELSE LET f == Fact(Len(items) - 1)
             q == (w \div f) % Len(items)
         IN  <<items[q + 1]>> \o ShuffleOf(RemoveAt(items, q + 1), w % f)

\* Line 39: sorted(random.sample(range(m), 2)); the generator's output
\* decides which pair i < j.
RECURSIVE PairAt(_, _, _, _)
PairAt(m, i, j, idx) ==
    IF idx = 0 THEN <<i, j>>
    ELSE IF j < m - 1 THEN PairAt(m, i, j + 1, idx - 1)
    ELSE PairAt(m, i + 1, i + 2, idx - 1)

SampleOf(m, w) == PairAt(m, 0, 1, w % ((m * (m - 1)) \div 2))

\* Line 90: random.random() < math.exp(-delta / temp); the generator's
\* output decides the side of the threshold.
DrawOf(w) == IF w % 2 = 0 THEN "below" ELSE "notbelow"

TwinCityInputs ==
    { << <<0, 0>> >>,
      << <<0, 0>>, <<2, 0>>, <<1, 2>> >>,
      UnitSquare }

TwinSchedulers ==
    { LinearCooler(<<500, 1>>, <<1, 20>>),
      TableCooler(<< <<5, 1>>, <<5, 1>>, <<0, 1>> >>) }

NewRun ==
    [pc |-> "start", k |-> 0, pos |-> 0,
     current_state |-> <<>>, current_cost |-> 0,
     best_state |-> <<>>, best_cost |-> 0,
     decisions |-> <<>>, result |-> <<>>]

InitTwin ==
    /\ engine = "twoopt" /\ pc = "twin"
    /\ cities \in TwinCityInputs
    /\ dist_matrix = <<>>
    /\ scheduler \in TwinSchedulers
    /\ max_steps \in 0..MaxSteps
    /\ schedule_type = "none"
    /\ k = 0 /\ temp = NoTemp /\ T = 0
    /\ current_state = <<>> /\ current_cost = 0
    /\ best_state = <<>> /\ best_cost = 0
    /\ candidate = <<>> /\ candidate_cost = 0
    /\ delta = 0 /\ decision = "none" /\ result = <<>>
    /\ IdleCost /\ IdleQuery /\ IdleHistory /\ IdleExtra
    /\ stream = <<>>
    /\ runs = [r \in {1, 2} |-> NewRun]

\* Lines 73-78: the shuffled initial tour, its cost, and the best so far.
TwinShuffle(r) ==
    /\ pc = "twin" /\ runs[r].pc = "start"
    /\ \E w \in Words :
          /\ random_next(stream, runs[r].pos + 1, w)
          /\ stream' = Reveal(stream, runs[r].pos + 1, w)
          /\ LET t == ShuffleOf([q \in 1..n |-> q - 1], w)
                 c == calculate_tour_cost(t, cities)
             IN  runs' = [runs EXCEPT ![r] =
                            [@ EXCEPT !.pc = "loop", !.pos = @ + 1,
                                      !.current_state = t, !.current_cost = c,
                                      !.best_state = t, !.best_cost = c]]
    /\ UNCHANGED <<evars, cvars, qvars, hvars, xvars>>

\* Lines 80, 99: range(max_steps) is exhausted.
TwinExhausted(r) ==
    /\ pc = "twin" /\ runs[r].pc = "loop"
    /\ runs[r].k >= max_steps
    /\ runs' = [runs EXCEPT ![r] =
                  [@ EXCEPT !.pc = "done",
                            !.result = <<runs[r].best_state, runs[r].best_cost>>]]
    /\ UNCHANGED <<evars, cvars, qvars, hvars, stream, xvars>>

\* Lines 81-82, 99: the temperature of step k is at the floor.
TwinBreak(r) ==
    /\ pc = "twin" /\ runs[r].pc = "loop"
    /\ runs[r].k < max_steps
    /\ ShouldBreak(get_temp(scheduler, runs[r].k))
    /\ runs' = [runs EXCEPT ![r] =
                  [@ EXCEPT !.pc = "done",
                            !.result = <<runs[r].best_state, runs[r].best_cost>>]]
    /\ UNCHANGED <<evars, cvars, qvars, hvars, stream, xvars>>

\* Line 39 with fewer than two cities: random.sample raises ValueError.
TwinSampleError(r) ==
    /\ pc = "twin" /\ runs[r].pc = "loop"
    /\ runs[r].k < max_steps
    /\ ~ShouldBreak(get_temp(scheduler, runs[r].k))
    /\ n < 2
    /\ runs' = [runs EXCEPT ![r] = [@ EXCEPT !.pc = "error"]]
    /\ UNCHANGED <<evars, cvars, qvars, hvars, stream, xvars>>

\* Lines 81-97: one iteration.  random.random() is called only when delta
\* is not negative (the or short-circuits).
TwinIterate(r) ==
    /\ pc = "twin" /\ runs[r].pc = "loop"
    /\ runs[r].k < max_steps
    /\ ~ShouldBreak(get_temp(scheduler, runs[r].k))
    /\ n >= 2
    /\ \E w1 \in Words, w2 \in Words :
          LET run == runs[r]
              ij == SampleOf(n, w1)
              move == apply_2opt_move(run.current_state, ij[1], ij[2])
              cost == calculate_tour_cost(move.new_route, cities)
              drawn == FSub(cost, run.current_cost) >= 0
              s == MetropolisStep(move.route, run.current_cost,
                                  run.best_state, run.best_cost,
                                  move.new_route, cost, DrawOf(w2))
          IN  /\ random_next(stream, run.pos + 1, w1)
              /\ IF drawn
                 THEN /\ random_next(Reveal(stream, run.pos + 1, w1), run.pos + 2, w2)
                      /\ stream' = Reveal(Reveal(stream, run.pos + 1, w1), run.pos + 2, w2)
                 ELSE /\ w2 = 0
                      /\ stream' = Reveal(stream, run.pos + 1, w1)
              /\ runs' = [runs EXCEPT ![r] =
                            [@ EXCEPT !.k = @ + 1,
                                      !.pos = IF drawn THEN @ + 2 ELSE @ + 1,
                                      !.current_state = s.current_state,
                                      !.current_cost = s.current_cost,
                                      !.best_state = s.best_state,
                                      !.best_cost = s.best_cost,
                                      !.decisions = Append(@, s.decision)]]
    /\ UNCHANGED <<evars, cvars, qvars, hvars, xvars>>

NextTwin ==
    \E r \in {1, 2} :
        \/ TwinShuffle(r)
        \/ TwinExhausted(r)
        \/ TwinBreak(r)
        \/ TwinSampleError(r)
        \/ TwinIterate(r)

SpecTwin == InitTwin /\ [][NextTwin]_vars

\* ------------------------------------- the runs of __main__ (Q1b.py)
\* Q1b.py line 121: LinearCooler(t_start=500.0, beta=0.05).
LinearScenario == LinearCooler(<<500, 1>>, <<1, 20>>)

ScenarioSchedulers == {ExponentialScenario, LinearScenario}

InitScenario ==
    /\ engine = "twoopt"
    /\ cities = << <<0, 0>>, <<1, 1>> >>
    /\ dist_matrix = <<>>
    /\ scheduler \in ScenarioSchedulers
    /\ max_steps \in {DefaultMaxSteps, MaxScenarioSteps}
    /\ schedule_type = "none"
    /\ T = 0
    /\ current_state \in Tours(Len(cities))
    /\ current_cost = calculate_tour_cost(current_state, cities)
    /\ best_state = current_state
    /\ best_cost = current_cost
    /\ pc = "loop" /\ k = 0 /\ temp = NoTemp /\ candidate = <<>>
    /\ candidate_cost = 0 /\ delta = 0 /\ decision = "none" /\ result = <<>>
    /\ IdleCost /\ IdleQuery /\ IdleOther

NextScenario ==
    \/ TwoOptExhausted
    \/ TwoOptBreak
    \/ TwoOptPropose
    \/ TwoOptDecide

SpecScenario == InitScenario /\ [][NextScenario]_vars

\* ------------------------------------------- runs on the unit square
\* run_optimization on the four corners of the unit square, from every
\* initial permutation, with a schedule that stays hot and one that
\* reaches the floor.  The loop goes on as long as it can (weak fairness);
\* nothing is assumed about what the generator returns.
MaxSquareSteps == 4

SquareSchedulers ==
    { TableCooler(<< <<5, 1>> >>),
      TableCooler(<< <<5, 1>>, <<5, 1>>, <<5, 1>>, <<0, 1>> >>) }

InitSquare ==
    /\ engine = "twoopt"
    /\ cities = UnitSquare
    /\ dist_matrix = <<>>
    /\ scheduler \in SquareSchedulers
    /\ max_steps \in 1..MaxSquareSteps
    /\ schedule_type = "none"
    /\ T = 0
    /\ current_state \in Tours(Len(cities))
    /\ current_cost = calculate_tour_cost(current_state, cities)
    /\ best_state = current_state
    /\ best_cost = current_cost
    /\ pc = "loop" /\ k = 0 /\ temp = NoTemp /\ candidate = <<>>
    /\ candidate_cost = 0 /\ delta = 0 /\ decision = "none" /\ result = <<>>
    /\ IdleCost /\ IdleQuery /\ IdleOther

SpecSquare == InitSquare /\ [][NextScenario]_vars /\ WF_vars(NextScenario)

\* -------------------------------------- the threaded sort (Q5b.py)
MaxLen == 4
MaxVal == 1

\* sorted(s): the elements of s in non-decreasing order, by insertion.
RECURSIVE InsertSorted(_, _)
InsertSorted(v, s) ==
    IF Len(s) = 0 THEN <<v>>
    ELSE IF v <= Head(s) THEN <<v>> \o s
    ELSE <<Head(s)>> \o InsertSorted(v, Tail(s))

RECURSIVE sorted(_)
sorted(s) == IF Len(s) = 0 THEN <<>> ELSE InsertSorted(Head(s), sorted(Tail(s)))

\* Faulty variant: a join that returns although the thread is running.
ThreadExitedNoWait(t) == TRUE

\* Lines 103, 111: t.join() returns once the thread's function has
\* returned.
ThreadExited(t) == threads[t] = "exited"

SortInputs == UNION {[1..m -> -1..MaxVal] : m \in 0..MaxLen}

\* Lines 24-32, 94: the state after sorter = ThreadedSorter(raw_data).
InitSort ==
    /\ engine = "none" /\ cities = <<>> /\ dist_matrix = <<>>
    /\ pc = "sort"
    /\ IdleEngine
    /\ IdleCost /\ IdleQuery /\ IdleHistory /\ IdleTwin /\ IdleTree /\ IdleLater
    /\ original_data \in SortInputs
    /\ final_sorted_array = [q \in 1..Len(original_data) |-> 0]
    /\ sorter = [mid |-> Len(original_data) \div 2, left_half |-> <<>>, right_half |-> <<>>]
    /\ threads = [t \in {"main", "t0", "t1", "tm"} |->
                    IF t = "main" THEN "start0" ELSE "idle"]
    /\ merge = [i |-> 0, j |-> 0, k |-> 0]

\* Line 102: t0.start().
StartT0 ==
    /\ pc = "sort" /\ threads["main"] = "start0"
    /\ threads' = [threads EXCEPT !["main"] = "start1", !["t0"] = "running"]
    /\ UNCHANGED <<evars, cvars, qvars, hvars, wvars, tvars, zvars>>
    /\ UNCHANGED <<original_data, final_sorted_array, sorter, merge>>

\* Line 102: t1.start().
StartT1 ==
    /\ pc = "sort" /\ threads["main"] = "start1"
    /\ threads' = [threads EXCEPT !["main"] = "join0", !["t1"] = "running"]
    /\ UNCHANGED <<evars, cvars, qvars, hvars, wvars, tvars, zvars>>
    /\ UNCHANGED <<original_data, final_sorted_array, sorter, merge>>

\* Lines 36-38, thread t0: self.left_half = sorted(original_data[:self.mid]).
SortLeft ==
    /\ pc = "sort" /\ threads["t0"] = "running"
    /\ sorter' = [sorter EXCEPT !.left_half = sorted(SubSeq(original_data, 1, sorter.mid))]
    /\ threads' = [threads EXCEPT !["t0"] = "exited"]
    /\ UNCHANGED <<evars, cvars, qvars, hvars, wvars, tvars, zvars>>
    /\ UNCHANGED <<original_data, final_sorted_array, merge>>

\* Lines 39-41, thread t1: self.right_half = sorted(original_data[self.mid:]).
SortRight ==
    /\ pc = "sort" /\ threads["t1"] = "running"
    /\ sorter' = [sorter EXCEPT
                    !.right_half = sorted(SubSeq(original_data, sorter.mid + 1,
                                                 Len(original_data)))]
    /\ threads' = [threads EXCEPT !["t1"] = "exited"]
    /\ UNCHANGED <<evars, cvars, qvars, hvars, wvars, tvars, zvars>>
    /\ UNCHANGED <<original_data, final_sorted_array, merge>>

\* Line 103: t0.join().
JoinT0 ==
    /\ pc = "sort" /\ threads["main"] = "join0"
    /\ ThreadExited("t0")
    /\ threads' = [threads EXCEPT !["main"] = "join1"]
    /\ UNCHANGED <<evars, cvars, qvars, hvars, wvars, tvars, zvars>>
    /\ UNCHANGED <<original_data, final_sorted_array, sorter, merge>>

\* Line 103: t1.join().
JoinT1 ==
    /\ pc = "sort" /\ threads["main"] = "join1"
    /\ ThreadExited("t1")
    /\ threads' = [threads EXCEPT !["main"] = "startm"]
    /\ UNCHANGED <<evars, cvars, qvars, hvars, wvars, tvars, zvars>>
    /\ UNCHANGED <<original_data, final_sorted_array, sorter, merge>>

\* Lines 109-110, 45: tm.start(); merge_sublists begins with i = j = k = 0.
StartMerge ==
    /\ pc = "sort" /\ threads["main"] = "startm"
    /\ threads' = [threads EXCEPT !["main"] = "joinm", !["tm"] = "merging"]
    /\ merge' = [i |-> 0, j |-> 0, k |-> 0]
    /\ UNCHANGED <<evars, cvars, qvars, hvars, wvars, tvars, zvars>>
    /\ UNCHANGED <<original_data, final_sorted_array, sorter>>

\* Lines 46-53, thread tm: one test of the first while and its body.
MergeStep ==
    /\ pc = "sort" /\ threads["tm"] = "merging"
    /\ IF merge.i < Len(sorter.left_half) /\ merge.j < Len(sorter.right_half)
       THEN /\ IF sorter.left_half[merge.i + 1] < sorter.right_half[merge.j + 1]
               THEN /\ final_sorted_array' =
                         [final_sorted_array EXCEPT ![merge.k + 1] = sorter.left_half[merge.i + 1]]
                    /\ merge' = [merge EXCEPT !.i = @ + 1, !.k = @ + 1]
               ELSE /\ final_sorted_array' =
                         [final_sorted_array EXCEPT ![merge.k + 1] = sorter.right_half[merge.j + 1]]
                    /\ merge' = [merge EXCEPT !.j = @ + 1, !.k = @ + 1]
            /\ UNCHANGED threads
       ELSE /\ threads' = [threads EXCEPT !["tm"] = "left"]
            /\ UNCHANGED <<final_sorted_array, merge>>
    /\ UNCHANGED <<evars, cvars, qvars, hvars, wvars, tvars, zvars>>
    /\ UNCHANGED <<original_data, sorter>>

\* Lines 56-58, thread tm: one test of the second while and its body.
DrainLeft ==
    /\ pc = "sort" /\ threads["tm"] = "left"
    /\ IF merge.i < Len(sorter.left_half)
       THEN /\ final_sorted_array' =
                 [final_sorted_array EXCEPT ![merge.k + 1] = sorter.left_half[merge.i + 1]]
            /\ merge' = [merge EXCEPT !.i = @ + 1, !.k = @ + 1]
            /\ UNCHANGED threads
       ELSE /\ threads' = [threads EXCEPT !["tm"] = "right"]
            /\ UNCHANGED <<final_sorted_array, merge>>
    /\ UNCHANGED <<evars, cvars, qvars, hvars, wvars, tvars, zvars>>
    /\ UNCHANGED <<original_data, sorter>>

\* Lines 59-61, thread tm: one test of the third while and its body; the
\* function returns when the test fails.
DrainRight ==
    /\ pc = "sort" /\ threads["tm"] = "right"
    /\ IF merge.j < Len(sorter.right_half)
       THEN /\ final_sorted_array' =
                 [final_sorted_array EXCEPT ![merge.k + 1] = sorter.right_half[merge.j + 1]]
            /\ merge' = [merge EXCEPT !.j = @ + 1, !.k = @ + 1]
            /\ UNCHANGED threads
       ELSE /\ threads' = [threads EXCEPT !["tm"] = "exited"]
            /\ UNCHANGED <<final_sorted_array, merge>>
    /\ UNCHANGED <<evars, cvars, qvars, hvars, wvars, tvars, zvars>>
    /\ UNCHANGED <<original_data, sorter>>

\* Lines 111-113: tm.join(), then final_sorted_array is shown.
JoinMerge ==
    /\ pc = "sort" /\ threads["main"] = "joinm"
    /\ ThreadExited("tm")
    /\ threads' = [threads EXCEPT !["main"] = "shown"]
    /\ result' = final_sorted_array
    /\ UNCHANGED <<engine, cities, dist_matrix, scheduler, max_steps, schedule_type, pc,
                   k, temp, T, current_state, current_cost, best_state, best_cost,
                   candidate, candidate_cost, delta, decision>>
    /\ UNCHANGED <<cvars, qvars, hvars, wvars, tvars, zvars>>
    /\ UNCHANGED <<original_data, final_sorted_array, sorter, merge>>

NextSort ==
    \/ StartT0 \/ StartT1 \/ SortLeft \/ SortRight \/ JoinT0 \/ JoinT1
    \/ StartMerge \/ MergeStep \/ DrainLeft \/ DrainRight \/ JoinMerge

SpecSort == InitSort /\ [][NextSort]_vars

\* ------------------------- service centers on a binary tree (Q3.py,
\* Q3_ServiceCenter.py)
MaxNodes == 6      \* largest number of nodes of a tree
MaxCalls == 2      \* calls of calculate_min_centers on the same tree

\* A tree is None or a node <<left, right>>; neither program reads val.
None == <<>>
Node(l, r) == <<l, r>>
left(node) == node[1]
right(node) == node[2]

\* Q3.py lines 5-10: the binary trees of exactly m CityNodes.
RECURSIVE TreesOf(_)
TreesOf(m) ==
    IF m = 0 THEN {None}
    ELSE UNION {{Node(l, r) : l \in TreesOf(i), r \in TreesOf(m - 1 - i)} : i \in 0..(m - 1)}

Trees == UNION {TreesOf(m) : m \in 0..MaxNodes}

\* Q3.py lines 22-24.
UNCOVERED == 0
CENTER_INSTALLED == 1
COVERED == 2

\* Faulty variant: the test for a child with a center comes first.
RECURSIVE determine_node_state_center_first(_, _)
determine_node_state_center_first(node, total_centers) ==
    IF node = None THEN [state |-> COVERED, total_centers |-> total_centers]
    ELSE LET l == determine_node_state_center_first(left(node), total_centers)
             r == determine_node_state_center_first(right(node), l.total_centers)
         IN  IF l.state = CENTER_INSTALLED \/ r.state = CENTER_INSTALLED
             THEN [state |-> COVERED, total_centers |-> r.total_centers]
             ELSE IF l.state = UNCOVERED \/ r.state = UNCOVERED
             THEN [state |-> CENTER_INSTALLED, total_centers |-> r.total_centers + 1]
             ELSE [state |-> UNCOVERED, total_centers |-> r.total_centers]

\* Q3.py lines 29-52, _determine_node_state: the state of node, with the
\* planner's total_centers before and after the post-order walk.
RECURSIVE determine_node_state(_, _)
determine_node_state(node, total_centers) ==
    IF node = None THEN [state |-> COVERED, total_centers |-> total_centers]
    ELSE LET l == determine_node_state(left(node), total_centers)
             r == determine_node_state(right(node), l.total_centers)
         IN  IF l.state = UNCOVERED \/ r.state = UNCOVERED
             THEN [state |-> CENTER_INSTALLED, total_centers |-> r.total_centers + 1]
             ELSE IF l.state = CENTER_INSTALLED \/ r.state = CENTER_INSTALLED
             THEN [state |-> COVERED, total_centers |-> r.total_centers]
             ELSE [state |-> UNCOVERED, total_centers |-> r.total_centers]

\* Q3.py lines 54-66, calculate_min_centers: the planner after the call
\* and the value returned.
calculate_min_centers(self, node) ==
    LET reset == 0
        walk == determine_node_state(node, reset)
        total == IF walk.state = UNCOVERED THEN walk.total_centers + 1
                 ELSE walk.total_centers
    IN  IF node = None
        THEN [self |-> [self EXCEPT !.total_centers = reset], value |-> 0]
        ELSE [self |-> [self EXCEPT !.total_centers = total], value |-> total]

\* Q3_ServiceCenter.py line 15: the costs of an absent node.
Infinity == 9999
Min2(a, b) == IF a <= b THEN a ELSE b
Min3(s) == Min2(s[1], Min2(s[2], s[3]))

\* Q3_ServiceCenter.py lines 13-32, dfs: <<cost_covered, cost_camera,
\* cost_need>> of the subtree of node.
RECURSIVE dfs(_)
dfs(node) ==
    IF node = None THEN <<0, Infinity, 0>>
    ELSE LET l == dfs(left(node))
             r == dfs(right(node))
         IN  << Min2(l[2] + Min3(r), r[2] + Min3(l)),
                1 + Min3(l) + Min3(r),
                Min2(l[1], l[2]) + Min2(r[1], r[2]) >>

\* Q3_ServiceCenter.py lines 7-37.
min_camera_cover(node) == LET states == dfs(node) IN Min2(states[1], states[2])

\* The nodes of a tree, each named by its path from the root (1 left,
\* 2 right).
RECURSIVE NodesOf(_)
NodesOf(node) ==
    IF node = None THEN {}
    ELSE {<<>>} \cup {<<1>> \o p : p \in NodesOf(left(node))}
                \cup {<<2>> \o p : p \in NodesOf(right(node))}

\* q is a child of p.
ChildOf(q, p) == Len(q) = Len(p) + 1 /\ SubSeq(q, 1, Len(p)) = p

\* Every node of the tree is in centers, or is the parent or a child of
\* a node in centers.
Serves(centers, node) ==
    \A p \in NodesOf(node) :
        \/ p \in centers
        \/ \E q \in centers : ChildOf(p, q) \/ ChildOf(q, p)

\* The least number of centers that serve the tree, by trying every set
\* of nodes.
MinCenters(node) ==
    LET sizes == {Cardinality(c) : c \in {c \in SUBSET NodesOf(node) : Serves(c, node)}}
    IN  CHOOSE m \in sizes : \A other \in sizes : m <= other

MinCentersTable == [t \in Trees |-> MinCenters(t)]

InitTree ==
    /\ engine = "none" /\ cities = <<>> /\ dist_matrix = <<>>
    /\ pc = "tree"
    /\ IdleEngine
    /\ IdleCost /\ IdleQuery /\ IdleHistory /\ IdleTwin /\ IdleSort /\ IdleLater
    /\ root \in Trees
    /\ planner = [total_centers |-> 0]
    /\ returned = <<>>
    /\ cameras = <<>>

\* Q3.py lines 102-103: planner.calculate_min_centers(root).
PlanCall ==
    /\ pc = "tree" /\ Len(returned) < MaxCalls
    /\ LET call == calculate_min_centers(planner, root)
       IN  /\ planner' = call.self
           /\ returned' = Append(returned, call.value)
    /\ UNCHANGED <<evars, cvars, qvars, hvars, wvars, svars, zvars, root, cameras>>

\* The same planner counts the centers of another tree between two calls.
PlanOther ==
    /\ pc = "tree" /\ Len(returned) < MaxCalls
    /\ \E other \in Trees :
           /\ other # root
           /\ planner' = calculate_min_centers(planner, other).self
    /\ UNCHANGED <<evars, cvars, qvars, hvars, wvars, svars, zvars, root, returned, cameras>>

\* Q3_ServiceCenter.py line 46: min_camera_cover(root).
CameraCall ==
    /\ pc = "tree" /\ cameras = <<>>
    /\ cameras' = <<min_camera_cover(root)>>
    /\ UNCHANGED <<evars, cvars, qvars, hvars, wvars, svars, zvars, root, planner, returned>>

NextTree == PlanCall \/ PlanOther \/ CameraCall

SpecTree == InitTree /\ [][NextTree]_vars

\* ----------------------------- the tile game (Q2.py, Q2_TileShatter.py)
MaxTiles == 4      \* longest list of multipliers
MaxMult == 3       \* largest multiplier of an enumerated list

\* Q2.py lines 63, 71; Q2_TileShatter.py lines 37, 41: the lists of the
\* programs' own tests, and every list within the bounds.
TileInputs ==
    UNION {[1..m -> 1..MaxMult] : m \in 0..MaxTiles} \cup {<<3, 1, 5, 8>>, <<1, 5>>}

\* Q2.py lines 2-4.
get_padded_tiles(multipliers) == <<1>> \o multipliers \o <<1>>

\* Q2.py lines 6-8 (Q2_TileShatter.py line 5): m rows of m zeros.
build_dp_table(m) == [row \in 0..(m - 1) |-> [col \in 0..(m - 1) |-> 0]]

\* Python's max of two numbers.
max(a, b) == IF a >= b THEN a ELSE b

\* Faulty variant: the shattered tile is scored with the neighbours it
\* had at the start.
compute_shatter_logic_first_neighbours(tiles, dp, lo, hi, mid) ==
    dp[lo][mid] + dp[mid][hi] + At(tiles, mid - 1) * At(tiles, mid) * At(tiles, mid + 1)

\* Q2.py lines 10-19.
compute_shatter_logic(tiles, dp, lo, hi, mid) ==
    LET left_points == dp[lo][mid]
        right_points == dp[mid][hi]
        shatter_score == At(tiles, lo) * At(tiles, mid) * At(tiles, hi)
    IN  left_points + right_points + shatter_score

\* Q2.py lines 26-30: the loop variables of the iteration after
\* (gap, i, k) over m tiles, or "return" when the loops are exhausted.
GameAdvance(s, m) ==
    IF s.k + 1 < s.i + s.gap THEN [s EXCEPT !.k = s.k + 1]
    ELSE IF s.i + 1 < m - s.gap THEN [s EXCEPT !.i = s.i + 1, !.k = s.i + 2]
    ELSE IF s.gap + 1 < m THEN [s EXCEPT !.gap = s.gap + 1, !.i = 0, !.k = 1]
    ELSE [s EXCEPT !.at = "return"]

\* Q2_TileShatter.py lines 8-13: the same for (length, i, k).
ShatterAdvance(s, m) ==
    IF s.k + 1 < s.i + s.length THEN [s EXCEPT !.k = s.k + 1]
    ELSE IF s.i + 1 < m - s.length + 1 THEN [s EXCEPT !.i = s.i + 1, !.k = s.i + 1]
    ELSE IF s.length + 1 < m + 1 THEN [s EXCEPT !.length = s.length + 1, !.i = 0, !.k = 0]
    ELSE [s EXCEPT !.at = "return"]

InitTiles ==
    /\ engine = "none" /\ cities = <<>> /\ dist_matrix = <<>>
    /\ pc = "tiles"
    /\ IdleEngine
    /\ IdleCost /\ IdleQuery /\ IdleHistory /\ IdleTwin /\ IdleSort /\ IdleTree /\ IdleSearch /\ IdleNetwork
    /\ tile_multipliers \in TileInputs
    /\ solver \in {[fn |-> f, at |-> "start"] : f \in {"solve_tile_game", "solve_tile_shatter"}}

\* Q2.py lines 37-38: an empty list gives 0.
GameEmpty ==
    /\ pc = "tiles" /\ solver.fn = "solve_tile_game" /\ solver.at = "start"
    /\ tile_multipliers = <<>>
    /\ solver' = [fn |-> solver.fn, at |-> "returned", value |-> 0]
    /\ UNCHANGED <<evars, cvars, qvars, hvars, wvars, svars, tvars, avars, nvars, tile_multipliers>>

\* Q2.py lines 41-45, 23-30: the padded tiles, the table of zeros and the
\* loops' first iteration (gap 2, i 0, k 1; a padded list has 3 items or
\* more).
GameStart ==
    /\ pc = "tiles" /\ solver.fn = "solve_tile_game" /\ solver.at = "start"
    /\ tile_multipliers # <<>>
    /\ LET tiles == get_padded_tiles(tile_multipliers)
       IN  solver' = [fn |-> solver.fn, at |-> "loop", tiles |-> tiles,
                      dp |-> build_dp_table(Len(tiles)), gap |-> 2, i |-> 0, k |-> 1]
    /\ UNCHANGED <<evars, cvars, qvars, hvars, wvars, svars, tvars, avars, nvars, tile_multipliers>>

\* Q2.py lines 28-33: one iteration of the innermost loop.
GameStep ==
    /\ pc = "tiles" /\ solver.fn = "solve_tile_game" /\ solver.at = "loop"
    /\ LET lo == solver.i
           hi == solver.i + solver.gap
           current_score == compute_shatter_logic(solver.tiles, solver.dp, lo, hi, solver.k)
           stored == [solver EXCEPT !.dp[lo][hi] = max(@, current_score)]
       IN  solver' = GameAdvance(stored, Len(solver.tiles))
    /\ UNCHANGED <<evars, cvars, qvars, hvars, wvars, svars, tvars, avars, nvars, tile_multipliers>>

\* Q2.py line 51: return dp[0][n-1].
GameReturn ==
    /\ pc = "tiles" /\ solver.fn = "solve_tile_game" /\ solver.at = "return"
    /\ solver' = [fn |-> solver.fn, at |-> "returned",
                  value |-> solver.dp[0][Len(solver.tiles) - 1]]
    /\ UNCHANGED <<evars, cvars, qvars, hvars, wvars, svars, tvars, avars, nvars, tile_multipliers>>

\* Q2_TileShatter.py lines 2-8, 34: the table of zeros and the loops'
\* first iteration; for an empty list no loop runs and dp[0] raises
\* IndexError.
ShatterStart ==
    /\ pc = "tiles" /\ solver.fn = "solve_tile_shatter" /\ solver.at = "start"
    /\ solver' = IF tile_multipliers = <<>>
                 THEN [fn |-> solver.fn, at |-> "error", value |-> "IndexError"]
                 ELSE [fn |-> solver.fn, at |-> "loop",
                       dp |-> build_dp_table(Len(tile_multipliers)),
                       length |-> 1, i |-> 0, k |-> 0]
    /\ UNCHANGED <<evars, cvars, qvars, hvars, wvars, svars, tvars, avars, nvars, tile_multipliers>>

\* Q2_TileShatter.py lines 10-32: one iteration of the innermost loop.
ShatterStep ==
    /\ pc = "tiles" /\ solver.fn = "solve_tile_shatter" /\ solver.at = "loop"
    /\ LET lo == solver.i
           hi == solver.i + solver.length - 1
           mid == solver.k
           last == Len(tile_multipliers) - 1
           left_points == IF mid > lo THEN solver.dp[lo][mid - 1] ELSE 0
           right_points == IF mid < hi THEN solver.dp[mid + 1][hi] ELSE 0
           left_neighbor == IF lo > 0 THEN At(tile_multipliers, lo - 1) ELSE 1
           right_neighbor == IF hi < last THEN At(tile_multipliers, hi + 1) ELSE 1
           current_shatter_points == left_neighbor * At(tile_multipliers, mid) * right_neighbor
           total_points == left_points + right_points + current_shatter_points
           stored == IF total_points > solver.dp[lo][hi]
                     THEN [solver EXCEPT !.dp[lo][hi] = total_points]
                     ELSE solver
       IN  solver' = ShatterAdvance(stored, Len(tile_multipliers))
    /\ UNCHANGED <<evars, cvars, qvars, hvars, wvars, svars, tvars, avars, nvars, tile_multipliers>>

\* Q2_TileShatter.py line 34: return dp[0][n-1].
ShatterReturn ==
    /\ pc = "tiles" /\ solver.fn = "solve_tile_shatter" /\ solver.at = "return"
    /\ solver' = [fn |-> solver.fn, at |-> "returned",
                  value |-> solver.dp[0][Len(tile_multipliers) - 1]]
    /\ UNCHANGED <<evars, cvars, qvars, hvars, wvars, svars, tvars, avars, nvars, tile_multipliers>>

NextTiles ==
    \/ GameEmpty \/ GameStart \/ GameStep \/ GameReturn
    \/ ShatterStart \/ ShatterStep \/ ShatterReturn

SpecTiles == InitTiles /\ [][NextTiles]_vars

\* The score of shattering the tile at position p (from 1) of the row s:
\* left * tile * right, a missing neighbour counting as 1.
ShatterScore(s, p) ==
    (IF p > 1 THEN s[p - 1] ELSE 1) * s[p] * (IF p < Len(s) THEN s[p + 1] ELSE 1)

\* The largest summed score over all orders of shattering the row s.
RECURSIVE BestOrderScore(_)
BestOrderScore(s) ==
    IF Len(s) = 0 THEN 0
    ELSE LET totals == {ShatterScore(s, p) + BestOrderScore(RemoveAt(s, p)) : p \in 1..Len(s)}
         IN  CHOOSE best \in totals : \A other \in totals : best >= other

\* ------------------------------------- route search (Q6_RobotSearch.py)
\* Lines 15-33: for every city its neighbours and the weight of the edge.
NEPAL_MAP ==
    [Mahendranagar |-> [Dhangadhi |-> 45, Nepalgunj |-> 140],
     Dhangadhi |-> [Mahendranagar |-> 45, Surkhet |-> 90, Tansen |-> 140, Nepalgunj |-> 100],
     Nepalgunj |-> [Dhangadhi |-> 100, Mahendranagar |-> 140, Tansen |-> 160, Narayangarh |-> 118, Dang |-> 100],
     Surkhet |-> [Dailekh |-> 140, Butwal |-> 120, Tansen |-> 130, Dhangadhi |-> 90],
     Dailekh |-> [Surkhet |-> 140, Pokhara |-> 110],
     Pokhara |-> [Dailekh |-> 110, Kathmandu |-> 55, Butwal |-> 120],
     Kathmandu |-> [Pokhara |-> 55, Bhaktapur |-> 130],
     Butwal |-> [Pokhara |-> 120, Surkhet |-> 120, Tansen |-> 120, Hetauda |-> 120],
     Tansen |-> [Surkhet |-> 130, Butwal |-> 120, Hetauda |-> 160, Nepalgunj |-> 160, Dhangadhi |-> 140],
     Bhaktapur |-> [Kathmandu |-> 130, Hetauda |-> 150, Janakpur |-> 105],
     Hetauda |-> [Bhaktapur |-> 150, Butwal |-> 120, Tansen |-> 160, Narayangarh |-> 128, Janakpur |-> 165],
     Janakpur |-> [Bhaktapur |-> 105, Hetauda |-> 165, Sindhuli |-> 82, Biratnagar |-> 280],
     Narayangarh |-> [Nepalgunj |-> 118, Hetauda |-> 128, Lumbini |-> 80],
     Dang |-> [Nepalgunj |-> 100, Lumbini |-> 85],
     Lumbini |-> [Narayangarh |-> 80, Dang |-> 85, Biratnagar |-> 85],
     Sindhuli |-> [Janakpur |-> 82, Biratnagar |-> 120],
     Biratnagar |-> [Lumbini |-> 85, Sindhuli |-> 120, Janakpur |-> 280]]

\* Lines 37-43: the straight-line distance to Kathmandu.
H_KATHMANDU ==
    [Dailekh |-> 90, Pokhara |-> 44, Kathmandu |-> 0, Butwal |-> 96,
     Surkhet |-> 107, Bhaktapur |-> 95, Hetauda |-> 118, Dhangadhi |-> 103,
     Tansen |-> 107, Janakpur |-> 91, Mahendranagar |-> 40, Nepalgunj |-> 80,
     Narayangarh |-> 90, Sindhuli |-> 102, Dang |-> 190, Biratnagar |-> 68,
     Lumbini |-> 61]

\* Python compares strings by code point: the names used, in that order.
CityOrder ==
    <<"Bhaktapur", "Biratnagar", "Butwal", "Dailekh", "Dang",
      "Dhangadhi", "Elsewhere", "Hetauda", "Janakpur", "Kathmandu",
      "Lumbini", "Mahendranagar", "Narayangarh", "Nepalgunj", "Pokhara",
      "Sindhuli", "Surkhet", "Tansen">>

Rank(city) == CHOOSE r \in 1..Len(CityOrder) : CityOrder[r] = city

\* Python's < on two lists of names.
RECURSIVE ListLess(_, _)
ListLess(a, b) ==
    IF Len(b) = 0 THEN FALSE
    ELSE IF Len(a) = 0 THEN TRUE
    ELSE IF Head(a) # Head(b) THEN Rank(Head(a)) < Rank(Head(b))
    ELSE ListLess(Tail(a), Tail(b))

\* Python's < on two tuples (f_score, g_score, current_node, path).
TupleLess(a, b) ==
    \/ a.f < b.f
    \/ a.f = b.f /\ a.g < b.g
    \/ a.f = b.f /\ a.g = b.g /\ Rank(a.node) < Rank(b.node)
    \/ a.f = b.f /\ a.g = b.g /\ a.node = b.node /\ ListLess(a.path, b.path)

\* Faulty variant: the largest item of the queue.
heappop_largest(pq) == CHOOSE item \in pq : \A other \in pq \ {item} : TupleLess(other, item)

\* Line 88, heapq.heappop: the smallest item of the queue.
heappop(pq) == CHOOSE item \in pq : \A other \in pq \ {item} : TupleLess(item, other)

\* Lines 84, 95: H_KATHMANDU.get(city, 999).
h_get(city) == IF city \in DOMAIN H_KATHMANDU THEN H_KATHMANDU[city] ELSE 999

\* Line 91: NEPAL_MAP.get(node, {}).
map_get(node) == IF node \in DOMAIN NEPAL_MAP THEN NEPAL_MAP[node] ELSE <<>>

target_city == "Kathmandu"

\* Lines 135, 142: every city of the map as the start, and a name that is
\* not on the map.
StartCities == DOMAIN NEPAL_MAP \cup {"Elsewhere"}

InitSearch ==
    /\ engine = "none" /\ cities = <<>> /\ dist_matrix = <<>>
    /\ pc = "search"
    /\ IdleEngine
    /\ IdleCost /\ IdleQuery /\ IdleHistory /\ IdleTwin /\ IdleSort /\ IdleTree
    /\ IdleTiles /\ IdleNetwork
    /\ start_city \in StartCities
    /\ astar = [at |-> "loop",
                pq |-> {[f |-> h_get(start_city), g |-> 0, node |-> start_city,
                         path |-> <<start_city>>]},
                visited_costs |-> [c \in {start_city} |-> 0]]

\* Lines 87-96: one iteration of the while loop: pop the smallest item;
\* return its path at the goal, else push every neighbour reached at a
\* lower cost than recorded.
AStarPop ==
    /\ pc = "search" /\ astar.at = "loop" /\ astar.pq # {}
    /\ LET item == heappop(astar.pq)
           neighbors == map_get(item.node)
           improved == {nb \in DOMAIN neighbors :
                           \/ nb \notin DOMAIN astar.visited_costs
                           \/ item.g + neighbors[nb] < astar.visited_costs[nb]}
       IN  astar' =
               IF item.node = target_city
               THEN [at |-> "returned", value |-> item.path]
               ELSE [at |-> "loop",
                     pq |-> (astar.pq \ {item}) \cup
                            {[f |-> item.g + neighbors[nb] + h_get(nb),
                              g |-> item.g + neighbors[nb],
                              node |-> nb,
                              path |-> Append(item.path, nb)] : nb \in improved},
                     visited_costs |->
                         [c \in DOMAIN astar.visited_costs \cup improved |->
                             IF c \in improved THEN item.g + neighbors[c]
                             ELSE astar.visited_costs[c]]]
    /\ UNCHANGED <<evars, cvars, qvars, hvars, wvars, svars, tvars, gvars, nvars, start_city>>

\* Lines 87, 97: the queue is empty; return None.
AStarNone ==
    /\ pc = "search" /\ astar.at = "loop" /\ astar.pq = {}
    /\ astar' = [at |-> "returned", value |-> None]
    /\ UNCHANGED <<evars, cvars, qvars, hvars, wvars, svars, tvars, gvars, nvars, start_city>>

NextSearch == AStarPop \/ AStarNone

SpecSearch == InitSearch /\ [][NextSearch]_vars

\* Line 128: the summed weight of a path's edges.
RECURSIVE PathCost(_)
PathCost(path) ==
    IF Len(path) <= 1 THEN 0
    ELSE NEPAL_MAP[path[1]][path[2]] + PathCost(Tail(path))

UsesMapEdges(path) ==
    \A q \in 1..(Len(path) - 1) :
        path[q] \in DOMAIN NEPAL_MAP /\ path[q + 1] \in DOMAIN NEPAL_MAP[path[q]]

SetMin(s) == CHOOSE x \in s : \A y \in s : x <= y

\* From the least weights d of the paths to the goal of at most m edges,
\* those of the paths of at most m + 1 edges.
RelaxOnce(d) ==
    LET reach(c) == {nb \in DOMAIN NEPAL_MAP[c] : nb \in DOMAIN d}
        dom == {c \in DOMAIN NEPAL_MAP : c \in DOMAIN d \/ reach(c) # {}}
    IN  [c \in dom |->
            SetMin((IF c \in DOMAIN d THEN {d[c]} ELSE {})
                   \cup {NEPAL_MAP[c][nb] + d[nb] : nb \in reach(c)})]

RECURSIVE Relax(_, _)
Relax(d, rounds) ==
    IF rounds = 0 THEN d
    ELSE CHOOSE z \in {Relax(y, rounds - 1) : y \in {RelaxOnce(d) @@ <<>>}} : TRUE

\* For every city the least weight of a path to Kathmandu; a path without
\* a repeated city has fewer edges than there are cities.
ShortestToGoal ==
    Relax([c \in {target_city} |-> 0], Cardinality(DOMAIN NEPAL_MAP) - 1)

\* --------------------------------- the 2-opt move on any list (Q1b.py)
MaxRoute == 4      \* longest list given to apply_2opt_move

\* Every list of up to MaxRoute positions, with and without repeated
\* elements.
MoveInputs == UNION {[1..m -> 0..(m - 1)] : m \in 0..MaxRoute}

InitMove ==
    /\ engine = "none" /\ cities = <<>> /\ dist_matrix = <<>>
    /\ pc = "move"
    /\ IdleEngine /\ IdleQuery /\ IdleOther
    /\ tour \in MoveInputs
    /\ variant = <<>>

\* Q1b.py lines 37-41: two distinct positions are sampled and sorted, the
\* copy's segment between them is reversed and the copy returned.
ApplyMove ==
    /\ pc = "move" /\ Len(tour) >= 2
    /\ \E a \in 0..(Len(tour) - 1), b \in 0..(Len(tour) - 1) :
          /\ a # b
          /\ LET move == apply_2opt_move(tour, Min(a, b), max(a, b))
             IN  /\ tour' = move.route
                 /\ variant' = move.new_route
          /\ k1' = Min(a, b)
          /\ k2' = max(a, b)
    /\ pc' = "moved"
    /\ UNCHANGED <<engine, cities, dist_matrix, scheduler, max_steps, schedule_type,
                   k, temp, T, current_state, current_cost, best_state, best_cost,
                   candidate, candidate_cost, delta, decision, result>>
    /\ UNCHANGED ovars

\* Q1b.py line 39 with fewer than two positions: random.sample raises
\* ValueError.
ApplyMoveSampleError ==
    /\ pc = "move" /\ Len(tour) < 2
    /\ pc' = "error"
    /\ UNCHANGED <<engine, cities, dist_matrix, scheduler, max_steps, schedule_type,
                   k, temp, T, current_state, current_cost, best_state, best_cost,
                   candidate, candidate_cost, delta, decision, result>>
    /\ UNCHANGED <<cvars, qvars, ovars>>

NextMove == ApplyMove \/ ApplyMoveSampleError

SpecMove == InitMove /\ [][NextMove]_vars

\* ----------------------------------- the network simulator (Q5a.py)
\* Lines 28-38: the node ids.
NetworkNodes == 0..8

\* Lines 45-51: the edges (their weights play no part in the paths).
NetworkEdges ==
    { <<0, 1>>, <<0, 2>>, <<0, 7>>, <<1, 3>>, <<1, 4>>, <<1, 5>>, <<2, 4>>,
      <<2, 7>>, <<2, 8>>, <<3, 5>>, <<4, 3>>, <<5, 6>>, <<7, 8>> }

\* Lines 69-71, get_active_subgraph: the nodes that are not offline.
get_active_subgraph(offline) == NetworkNodes \ offline

\* The nodes joined to a node of seen by a path of active nodes.
RECURSIVE ReachFrom(_, _)
ReachFrom(seen, active) ==
    LET more == {x \in active : \E e \in NetworkEdges :
                    \/ e[1] \in seen /\ e[2] = x
                    \/ e[2] \in seen /\ e[1] = x}
    IN  IF more \subseteq seen THEN seen
        ELSE CHOOSE z \in {ReachFrom(y, active) : y \in {seen \cup more}} : TRUE

\* Lines 82-92, find_disjoint_paths: whether the list returned has a path.
\* nx.edge_disjoint_paths raises for an endpoint that is not in the active
\* subgraph, for equal endpoints and for endpoints not joined by a path;
\* every exception is caught and gives the empty list.
find_disjoint_paths(source, target, offline) ==
    LET active_g == get_active_subgraph(offline)
    IN  IF source \notin active_g \/ target \notin active_g \/ source = target
        THEN "no_path"
        ELSE IF target \in ReachFrom({source}, active_g) THEN "paths_found"
        ELSE "no_path"

\* Lines 18-23, 209-210: the state after AdvancedApp.__init__.
InitNetwork ==
    /\ engine = "none" /\ cities = <<>> /\ dist_matrix = <<>>
    /\ pc = "network"
    /\ IdleEngine
    /\ IdleCost /\ IdleQuery /\ IdleHistory /\ IdleTwin /\ IdleSort /\ IdleTree
    /\ IdleTiles /\ IdleSearch
    /\ offline_nodes = {}
    /\ selected_nodes = <<>>
    /\ console = "initialized"

\* Lines 275-279, 58-67: a right click toggles the node between offline
\* and active.
RightClick ==
    /\ pc = "network"
    /\ \E node_id \in NetworkNodes :
          IF node_id \in offline_nodes
          THEN offline_nodes' = offline_nodes \ {node_id} /\ console' = "restored"
          ELSE offline_nodes' = offline_nodes \cup {node_id} /\ console' = "failed"
    /\ UNCHANGED <<evars, cvars, qvars, hvars, wvars, svars, tvars, gvars, avars,
                   selected_nodes>>

\* Lines 282-295: a left click on an offline node is refused; on an
\* active node it starts a new selection when two are selected, and
\* appends the node.
LeftClick ==
    /\ pc = "network"
    /\ \E node_id \in NetworkNodes :
          IF node_id \in offline_nodes
          THEN console' = "error_offline" /\ UNCHANGED selected_nodes
          ELSE /\ selected_nodes' =
                    Append(IF Len(selected_nodes) >= 2 THEN <<>> ELSE selected_nodes,
                           node_id)
               /\ console' = "selected"
    /\ UNCHANGED <<evars, cvars, qvars, hvars, wvars, svars, tvars, gvars, avars,
                   offline_nodes>>

\* Lines 306-318: without exactly two selected nodes a warning is shown;
\* else find_disjoint_paths(u, v) is called and its result logged.
run_paths ==
    /\ pc = "network"
    /\ console' = IF Len(selected_nodes) # 2 THEN "warning"
                  ELSE find_disjoint_paths(selected_nodes[1], selected_nodes[2],
                                           offline_nodes)
    /\ UNCHANGED <<evars, cvars, qvars, hvars, wvars, svars, tvars, gvars, avars,
                   offline_nodes, selected_nodes>>

\* Lines 334-341: every node active again, the selection emptied.
reset_graph ==
    /\ pc = "network"
    /\ offline_nodes' = {}
    /\ selected_nodes' = <<>>
    /\ console' = "reset"
    /\ UNCHANGED <<evars, cvars, qvars, hvars, wvars, svars, tvars, gvars, avars>>

NextNetwork == RightClick \/ LeftClick \/ run_paths \/ reset_graph

SpecNetwork == InitNetwork /\ [][NextNetwork]_vars

\* ================================================================== claims
\* The tour and the cost a finished run returned: Q1b returns
\* (best_state, best_cost), Q1_Optimization returns (best_cost, best_tour).
ReturnedTour == IF engine = "twoopt" THEN result[1] ELSE result[2]
ReturnedCost == IF engine = "twoopt" THEN result[2] ELSE result[1]

\* C1: in every reachable state of a run of either engine, the current tour,
\* the best tour and every candidate the neighbourhood operator has built
\* hold every index 0..n-1 exactly once.
C1_PermutationInvariant ==
    /\ IsPermutation(current_state, n)
    /\ IsPermutation(best_state, n)
    /\ (pc = "decide" \/ decision # "none") => IsPermutation(candidate, n)

\* C1 witness: a 2-opt candidate over four cities awaits its decision, and
\* current, best and candidate are three different tours.
C1_Witness ==
    /\ engine = "twoopt" /\ pc = "decide" /\ n = 4
    /\ candidate # current_state
    /\ current_state # best_state
    /\ candidate # best_state

\* C2: best_cost never increases from one step to the next.
C2_BestCostMonotone == [][best_cost' <= best_cost]_vars

\* C2 witness: a worsening candidate was accepted, so the current cost is
\* above the best cost the run has kept.
C2_Witness ==
    /\ pc = "loop" /\ decision = "accept" /\ delta > 0
    /\ current_cost > best_cost

\* C3: when a run has returned, the returned tour is a permutation of
\* 0..n-1 and the returned cost is the cyclic cost of that returned tour.
C3_ReturnConsistent ==
    pc = "done" =>
        /\ IsPermutation(ReturnedTour, n)
        /\ ReturnedCost = CostOf(ReturnedTour)
        /\ ReturnedTour = best_state /\ ReturnedCost = best_cost

\* C3 witness: a run returned after at least two iterations a best tour
\* that is not the tour it ended on.
C3_Witness ==
    /\ pc = "done" /\ k >= 2 /\ n >= 3
    /\ ReturnedTour # current_state
    /\ ReturnedCost < current_cost

\* What is left of a run of the 2-opt engine: two program points for every
\* iteration range(max_steps) still holds, none once the run has ended.
StepsLeft ==
    CASE pc = "loop" -> 2 * (max_steps - k) + 2
      [] pc = "decide" -> 2 * (max_steps - k) + 1
      [] OTHER -> 0

\* C4: run_optimization ends after at most max_steps loop iterations for any
\* scheduler, and at the first step whose temperature is <= 0.001 it returns
\* without building a candidate and without changing current or best.
\* Termination is stated by a measure: the run is never stuck before it has
\* ended, and every step lowers StepsLeft, which is at most
\* 2 * max_steps + 2 and never negative.
C4_TerminatesWithinMaxSteps ==
    /\ [](k <= max_steps /\ StepsLeft >= 0)
    /\ [](pc \in {"loop", "decide"} => ENABLED NextTwoOpt)
    /\ [][StepsLeft' < StepsLeft]_vars
    /\ [][(pc = "loop" /\ k < max_steps /\ RLe(get_temp(scheduler, k), T_floor))
            => /\ pc' = "done"
               /\ result' = <<best_state, best_cost>>
               /\ UNCHANGED <<k, current_state, current_cost, best_state, best_cost,
                              candidate, candidate_cost>>]_vars

\* C4 witness: a run with steps left over returned because the schedule
\* reached the floor after some iterations.
C4_Witness ==
    /\ pc = "done" /\ k > 0 /\ k < max_steps
    /\ RLe(temp, T_floor)

\* C5: a candidate cheaper than the current tour is accepted and becomes the
\* current tour, whatever the temperature and the random draw.
C5_ImprovementAccepted ==
    [][(pc = "decide" /\ candidate_cost < current_cost)
         => /\ current_state' = candidate
            /\ current_cost' = candidate_cost
            /\ decision' = "accept"]_vars

\* C5 witness: a cheaper candidate has just been accepted.
C5_Witness ==
    /\ pc = "loop" /\ decision = "accept" /\ delta < 0
    /\ current_state = candidate /\ current_cost = candidate_cost

\* C6: a step that rejects its candidate leaves the current tour, the
\* current cost, the best tour and the best cost unchanged; the step index
\* advances (and the swap engine cools).
C6_RejectionFrame ==
    [][(pc = "decide" /\ decision' = "reject")
         => /\ UNCHANGED <<current_state, current_cost, best_state, best_cost>>
            /\ k' = k + 1
            /\ pc' = "loop"
            /\ engine = "swap" => T' = Cool(T, schedule_type)]_vars

\* C6 witness: a costlier candidate, different from the current tour, has
\* just been rejected.
C6_Witness ==
    /\ pc = "loop" /\ decision = "reject" /\ delta > 0
    /\ candidate # current_state

\* C7: the best tour and cost change only in a step that accepts a
\* candidate strictly cheaper than best_cost; an accepted candidate whose
\* cost equals best_cost leaves both as they were.
C7_StrictImprovementOnly ==
    /\ [][(best_state' # best_state \/ best_cost' # best_cost)
            => /\ pc = "decide" /\ decision' = "accept"
               /\ candidate_cost < best_cost
               /\ best_state' = candidate /\ best_cost' = candidate_cost]_vars
    /\ [][(pc = "decide" /\ decision' = "accept" /\ candidate_cost = best_cost)
            => UNCHANGED <<best_state, best_cost>>]_vars

\* C7 witness: the candidate just accepted ties with best_cost and is a
\* different tour from the best tour, which stayed.
C7_Witness ==
    /\ pc = "loop" /\ decision = "accept"
    /\ current_state = candidate
    /\ current_cost = best_cost
    /\ current_state # best_state

\* C8: building a neighbour (apply_2opt_move, or the swap construction)
\* leaves the tour it was given element for element as it was, and with it
\* the current cost and the best.
C8_OperatorsDoNotMutate ==
    [][(pc = "loop" /\ pc' = "decide")
         => /\ current_state' = current_state
            /\ UNCHANGED <<current_cost, best_state, best_cost>>]_vars

\* C8 witness: a neighbour that differs from the current tour has been
\* built and awaits its decision.
C8_Witness ==
    /\ pc = "decide" /\ n >= 3
    /\ candidate # current_state
    /\ IsPermutation(candidate, n)

\* The weight of the edge leaving 0-based position m of tour t.
EdgeWeight(t, m) ==
    IF engine = "twoopt"
    THEN get_euclidean_dist(cities[At(t, m) + 1], cities[At(t, (m + 1) % Len(t)) + 1])
    ELSE dist_matrix[At(t, m)][At(t, (m + 1) % Len(t))]

\* The sum of the first m edge weights of t without any rounding.
RECURSIVE ExactCostUpTo(_, _)
ExactCostUpTo(t, m) == IF m = 0 THEN 0 ELSE ExactCostUpTo(t, m - 1) + EdgeWeight(t, m - 1)

ExactCost(t) == ExactCostUpTo(t, Len(t))

\* C9 as stated: the computed cost of a tour, of each of its cyclic
\* rotations and of its reversal is the same number.
C9_CostRotationReversalInvariant == CostOf(variant) = CostOf(tour)

\* C9 amended: the computed cost of a tour, of its rotations and of its
\* reversal is the same whenever no addition rounds (the edge weights are
\* multiples of one unit and their total needs no more than the significand
\* holds).
C9_CostInvariantWhenExact ==
    ExactCost(tour) < Pow(2, Prec) => CostOf(variant) = CostOf(tour)

\* C9 witness: a three-city tour with unequal, exactly summable edge weights
\* and a rotation or reversal of it that is a different sequence.
C9_Witness ==
    /\ Len(tour) = 3 /\ variant # tour
    /\ ExactCost(tour) < Pow(2, Prec)
    /\ EdgeWeight(tour, 0) # EdgeWeight(tour, 1)
    /\ CostOf(variant) = ExactCost(tour)

\* C10: both cooling schedules are non-increasing in the step index, with
\* whatever parameters the cooler was constructed with.
C10_CoolingNonIncreasing ==
    k1 < k2 => RLe(get_temp(scheduler, k2), get_temp(scheduler, k1))

\* The parameters the specification allows a cooler to have: T0 > 0, and
\* 0 < alpha < 1 or beta >= 0.
ValidCooler(c) ==
    /\ c.t_start[1] > 0
    /\ c.kind = "ExponentialCooler" => (c.rate[1] > 0 /\ RLt(c.rate, <<1, 1>>))
    /\ c.kind = "LinearCooler" => c.rate[1] >= 0

\* The schedules are non-increasing for the parameters the specification
\* allows.
CoolingNonIncreasingIfValid ==
    (ValidCooler(scheduler) /\ k1 < k2)
        => RLe(get_temp(scheduler, k2), get_temp(scheduler, k1))

Malformed ==
    \/ Len(cities) < 2
    \/ scheduler.kind \in {"ExponentialCooler", "LinearCooler"} /\ scheduler.t_start[1] <= 0
    \/ scheduler.kind = "ExponentialCooler"
          /\ ~(scheduler.rate[1] > 0 /\ RLt(scheduler.rate, <<1, 1>>))

\* C13: a run on malformed input takes no search step and returns no
\* (tour, cost) result.
C13_MalformedInputFails ==
    Malformed => (pc \notin {"decide", "done"} /\ k = 0 /\ result = <<>>)

\* C14: evaluating the cost of a sequence that is not a permutation of
\* 0..n-1 raises DimensionMismatch and returns no cost.
C14_DimensionMismatch ==
    (pc = "evaluated" /\ ~IsPermutation(tour, NumCities))
        => result.raised = "DimensionMismatch"

\* The least step index at which t_start - beta * k is at or below the
\* floor: the ceiling of (t_start - 0.001) / beta.
LinearFloorStep(c) ==
    LET num == (c.t_start[1] * T_floor[2] - T_floor[1] * c.t_start[2]) * c.rate[2]
        den == T_floor[2] * c.t_start[2] * c.rate[1]
    IN  (num + den - 1) \div den

\* C15: with LinearCooler(500, 0.05) the temperature is at the floor 0.001
\* from step 10000 on and above it before, and a run ends with at most
\* 10000 iterations done, whatever max_steps is: it is never stuck before
\* it has ended and every step lowers StepsLeft.
C15_LinearFloorAt10000 ==
    /\ [](scheduler = LinearScenario =>
            /\ LinearFloorStep(scheduler) = DefaultMaxSteps
            /\ k <= LinearFloorStep(scheduler)
            /\ ShouldBreak(get_temp(scheduler, k)) <=> k = LinearFloorStep(scheduler)
            /\ get_temp(scheduler, LinearFloorStep(scheduler)) = T_floor)
    /\ [](pc \in {"loop", "decide"} => ENABLED NextScenario)
    /\ [][StepsLeft' < StepsLeft]_vars
    /\ [][(scheduler = LinearScenario /\ pc = "loop" /\ k = LinearFloorStep(scheduler))
            => pc' = "done"]_vars

\* C15 witness: a run with max_steps above 10000 has returned because the
\* temperature of step 10000 was the floor.
C15_Witness ==
    /\ scheduler = LinearScenario
    /\ pc = "done" /\ max_steps > DefaultMaxSteps
    /\ k = DefaultMaxSteps /\ temp = T_floor

\* The least step index at which the temperature of the exponential cooler
\* of __main__ is at or below 1.0, and the least at which it is at or below
\* the floor 0.001.
FirstStepAtOrBelow(limit) ==
    CHOOSE kk \in 0..MaxScenarioSteps :
        /\ RLe(ScenarioPowers[kk], limit)
        /\ \A jj \in 0..(kk - 1) : ~RLe(ScenarioPowers[jj], limit)

UnitStep == FirstStepAtOrBelow(<<1, 1>>)
ExpFloorStep == FirstStepAtOrBelow(T_floor)

\* How far from a step index "near" reaches.
NearSteps == 100

\* C16 as stated: with ExponentialCooler(500, 0.999) a run ends near the
\* step at which 500 * 0.999^k first is at or below 1.0.
C16_EndsNearUnitTemperature ==
    (scheduler = ExponentialScenario /\ pc = "done")
        => (k >= UnitStep - NearSteps /\ k <= UnitStep + NearSteps)

\* C16 amended: with ExponentialCooler(500, 0.999) the temperature first
\* is at or below 1.0 at step 6212 (within the float's error), and the run
\* goes on: it ends at the first step whose temperature is at or below
\* 0.001, step 13116, or after max_steps iterations where that is fewer, as
\* with the default 10000.
C16_EndsAtFloorOrMaxSteps ==
    scheduler = ExponentialScenario =>
        /\ UnitStep \in 6208..6216
        /\ ExpFloorStep \in 13109..13123
        /\ UnitStep + NearSteps < DefaultMaxSteps
        /\ DefaultMaxSteps + NearSteps < ExpFloorStep
        /\ k <= Min(max_steps, ExpFloorStep)
        /\ pc = "done" => k = Min(max_steps, ExpFloorStep)

\* C16 witness: the run of __main__, with the default max_steps, has
\* returned after 10000 iterations with its last temperature above 0.001
\* and below 1.0.
C16_Witness ==
    /\ scheduler = ExponentialScenario
    /\ pc = "done" /\ max_steps = DefaultMaxSteps /\ k = DefaultMaxSteps
    /\ RLt(T_floor, temp) /\ RLt(temp, <<1, 1>>)

\* The cost 4.0 of the tours along the sides of the unit square.
OptimalSquareCost == 4 * Unit

\* The loop is about to propose a candidate: range(max_steps) is not
\* exhausted and the temperature of step k is above the floor.
AboutToPropose ==
    /\ pc = "loop" /\ k < max_steps
    /\ ~ShouldBreak(get_temp(scheduler, k))

CountOf(s, v) == Cardinality({q \in DOMAIN s : s[q] = v})

SameElements(s, t) ==
    /\ Len(s) = Len(t)
    /\ \A v \in Range(s) \cup Range(t) : CountOf(s, v) = CountOf(t, v)

NonDecreasing(s) == \A q \in 1..(Len(s) - 1) : s[q] <= s[q + 1]

\* C18: once run_sort has joined the merge thread, final_sorted_array (and
\* what is shown of it) holds the input's elements in non-decreasing order;
\* and while the merge thread runs both sorting threads have exited and
\* left_half and right_half are the sorted halves of the input.
C18_SortedAfterJoin ==
    /\ threads["main"] = "shown"
          => /\ SameElements(final_sorted_array, original_data)
             /\ NonDecreasing(final_sorted_array)
             /\ result = final_sorted_array
    /\ threads["tm"] \in {"merging", "left", "right"}
          => /\ threads["t0"] = "exited" /\ threads["t1"] = "exited"
             /\ sorter.left_half = sorted(SubSeq(original_data, 1, sorter.mid))
             /\ sorter.right_half =
                   sorted(SubSeq(original_data, sorter.mid + 1, Len(original_data)))

\* C18 witness: the result shown for a four-element input with a repeated
\* value differs from the input, and the merge had to take from the right
\* half first.
C18_Witness ==
    /\ pc = "sort" /\ threads["main"] = "shown"
    /\ Len(original_data) = 4
    /\ result # original_data
    /\ \E a, b \in DOMAIN original_data : a # b /\ original_data[a] = original_data[b]
    /\ sorter.left_half[1] > sorter.right_half[1]

\* C19: for every binary tree calculate_min_centers returns the least number
\* of nodes such that every node is one of them or is the parent or a child
\* of one of them (0 for the empty tree), and a further call on the same
\* planner returns the same.
C19_MinimumCenters ==
    pc = "tree" =>
        /\ \A c \in 1..Len(returned) : returned[c] = MinCentersTable[root]
        /\ (root = None /\ Len(returned) > 0 => returned[1] = 0)

\* A tree of MaxNodes nodes that needs two centers was counted twice.
C19_Witness ==
    /\ pc = "tree" /\ Len(returned) = 2
    /\ Cardinality(NodesOf(root)) = MaxNodes
    /\ returned[2] = 2

\* C20: for every non-empty binary tree min_camera_cover returns the least
\* number of centers that serve every node, the value calculate_min_centers
\* returns for the tree.
C20_CameraCoverIsMinimum ==
    pc = "tree" /\ root # None /\ cameras # <<>> =>
        /\ cameras[1] = MinCentersTable[root]
        /\ cameras[1] = calculate_min_centers(planner, root).value

\* C21: for every non-empty list of positive multipliers solve_tile_game and
\* solve_tile_shatter return the largest summed score over all orders of
\* shattering the tiles: 167 for [3,1,5,8] and 10 for [1,5].
C21_MaximumShatterScore ==
    pc = "tiles" /\ tile_multipliers # <<>> =>
        /\ solver.at # "error"
        /\ solver.at = "returned" =>
               /\ solver.value = BestOrderScore(tile_multipliers)
               /\ (tile_multipliers = <<3, 1, 5, 8>> => solver.value = 167)
               /\ (tile_multipliers = <<1, 5>> => solver.value = 10)

\* A solver returned 167 for [3,1,5,8].
C21_Witness ==
    /\ pc = "tiles" /\ tile_multipliers = <<3, 1, 5, 8>>
    /\ solver.at = "returned" /\ solver.value = 167

\* C22: for every start city of NEPAL_MAP and the goal Kathmandu,
\* get_astar_path returns a path from the start to the goal along edges of
\* NEPAL_MAP whose summed weight is the least of all such paths.
C22_AStarPathIsShortest ==
    pc = "search" /\ start_city \in DOMAIN NEPAL_MAP /\ astar.at = "returned" =>
        /\ astar.value # None
        /\ Head(astar.value) = start_city
        /\ astar.value[Len(astar.value)] = target_city
        /\ UsesMapEdges(astar.value)
        /\ PathCost(astar.value) = ShortestToGoal[start_city]

\* The path from Mahendranagar, the program's own start, was returned.
C22_Witness ==
    /\ pc = "search" /\ start_city = "Mahendranagar" /\ astar.at = "returned"
    /\ Len(astar.value) = 6 /\ PathCost(astar.value) = 430

\* C23: whenever exp(-delta / T) is about to be evaluated the temperature is
\* strictly above the floor (0.001 in run_optimization, 1.0 in
\* simulated_annealing), whatever the schedule returns: the divisor is never
\* zero or negative.
C23_TemperatureAboveFloor ==
    pc = "decide" =>
        /\ engine = "twoopt" => RLt(T_floor, temp) /\ RLt(<<0, 1>>, temp)
        /\ engine = "swap" => T > SA_T_min * TUnit /\ T > 0

\* The Metropolis test drew against exp(-delta / temp) under a schedule
\* that answers 0 at the next step.
C23_Witness ==
    /\ engine = "twoopt" /\ pc = "loop" /\ k = 1
    /\ scheduler = TableCooler(<< <<5, 1>>, <<0, 1>>, <<5, 1>> >>)
    /\ delta > 0 /\ decision = "reject"
    /\ RLt(T_floor, temp)
    /\ get_temp(scheduler, k) = <<0, 1>>

\* C24: for every list of two or more positions and the sampled pair i < j,
\* apply_2opt_move returns a list whose positions i..j hold the input's
\* elements at i..j in reverse order and whose other positions are the
\* input's; the two positions are never equal.
C24_SegmentReversed ==
    pc = "moved" =>
        /\ 0 <= k1 /\ k1 < k2 /\ k2 <= Len(tour) - 1
        /\ Len(variant) = Len(tour)
        /\ SubSeq(variant, 1, k1) = SubSeq(tour, 1, k1)
        /\ SubSeq(variant, k1 + 1, k2 + 1) = Reverse(SubSeq(tour, k1 + 1, k2 + 1))
        /\ SubSeq(variant, k2 + 2, Len(tour)) = SubSeq(tour, k2 + 2, Len(tour))

\* The last three positions of a list of four were reversed.
C24_Witness ==
    /\ pc = "moved" /\ Len(tour) = 4 /\ k1 = 1 /\ k2 = 3
    /\ tour = <<0, 1, 2, 3>> /\ variant = <<0, 3, 2, 1>>

\* C25: at every point of a run best_cost is the least cost of the tours that
\* have been the current tour so far, so best_cost <= current_cost, and the
\* best tour is one of those tours, with that cost.  The run starts with the
\* best equal to the current tour, and every step leaves best_cost the lesser
\* of the old best_cost and the new current cost, the best tour being the old
\* best or the new current tour.
C25_BestIsLeastSoFar ==
    /\ best_cost = current_cost /\ best_state = current_state
    /\ [](best_cost <= current_cost /\ CostOf(best_state) = best_cost)
    /\ [][/\ best_cost' = Min(best_cost, current_cost')
          /\ \/ best_state' = best_state /\ best_cost' = best_cost
             \/ best_state' = current_state' /\ best_cost' = current_cost']_vars

\* After two or more iterations over four cities the run has just accepted
\* a tour that costs more than an earlier current tour, which is the best.
C25_Witness ==
    /\ engine = "twoopt" /\ pc = "loop" /\ n = 4 /\ k >= 2
    /\ decision = "accept"
    /\ best_cost < current_cost /\ best_state # current_state
    /\ CostOf(best_state) = best_cost

\* C26: whenever run_paths has called find_disjoint_paths, both selected
\* endpoints are active nodes: none of them is in offline_nodes.
C26_EndpointsActive ==
    pc = "network" /\ console \in {"paths_found", "no_path"} =>
        \A q \in 1..Len(selected_nodes) : selected_nodes[q] \notin offline_nodes

====
